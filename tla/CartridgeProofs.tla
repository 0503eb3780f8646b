--------------------------- MODULE CartridgeProofs ---------------------------
(***************************************************************************)
(* Proofs about Cartridge, for every size of the flash chip, every width   *)
(* and limit of the clock's counters and every cut of its time.            *)
(*                                                                         *)
(* The clock: the registers after n seconds are a function of n            *)
(* (Counting), so that two calls count on where the first one got to; and  *)
(* a second of a clock in range is one more of its number of seconds, in   *)
(* the base of its limits (SecondUp).  Both are inductions over the        *)
(* seconds, by the sets of numbers they hold of (AllNumbers).              *)
(*                                                                         *)
(* The chip: TypeOK is inductive, command by command.                      *)
(*                                                                         *)
(* What the chip was told: the orders in the history of the commands       *)
(* heard (Orders) are those that its mode, the place in its unlock         *)
(* sequence, its prefix and its page buffer have in hand, so that no page  *)
(* is erased or programmed but on the order that the history ends in.      *)
(***************************************************************************)
EXTENDS Cartridge, TLAPS, WellFoundedInduction, NaturalsInduction,
        SequenceTheorems
-----------------------------------------------------------------------------
(* Counting seconds. *)

\* A set of numbers with 0 and every successor has them all.
LEMMA AllNumbers ==
  ASSUME NEW T, 0 \in T, \A n \in Nat : n \in T => n + 1 \in T
  PROVE  \A n \in Nat : n \in T
<1> DEFINE U == Nat \ T
<1> SUFFICES ASSUME U # {} PROVE FALSE
  OBVIOUS
<1>1. PICK x \in U : \A y \in U : ~(<<y, x>> \in OpToRel(<, Nat))
  <2>1. IsWellFoundedOn(OpToRel(<, Nat), Nat)
    BY NatLessThanWellFounded
  <2>2. U \subseteq Nat
    OBVIOUS
  <2> HIDE DEF U
  <2> QED BY <2>1, <2>2, WFMin
<1>2. x \in Nat /\ x \notin T
  OBVIOUS
<1>3. x # 0
  BY <1>2
<1>4. x - 1 \in Nat /\ x - 1 < x /\ x - 1 + 1 = x
  BY <1>2, <1>3
<1>5. x - 1 \notin U
  BY <1>1, <1>2, <1>4 DEF OpToRel
<1>6. x - 1 \in T
  BY <1>4, <1>5
<1> QED BY <1>2, <1>4, <1>6

-----------------------------------------------------------------------------
(* One second. *)

\* What the counters carry.
Next1(g, i) == IF carries(g, i) THEN 0 ELSE bumped(g, i)
NewMinute(g) == carries(g, "s")
NewHour(g) == NewMinute(g) /\ carries(g, "m")
NewDay(g) == NewHour(g) /\ carries(g, "h")
Day(g) == g.high * DayLow + g.dl

\* The registers are records of their fields.
LEMMA RegFields ==
  ASSUME NEW g \in Regs
  PROVE  /\ g = [s |-> g.s, m |-> g.m, h |-> g.h, dl |-> g.dl, high |-> g.high,
                 halt |-> g.halt, carry |-> g.carry]
         /\ g.s \in 0..Width["s"] - 1 /\ g.m \in 0..Width["m"] - 1 /\ g.h \in 0..Width["h"] - 1
         /\ g.dl \in 0..DayLow - 1 /\ g.high \in {0, 1} /\ g.halt \in BOOLEAN
         /\ g.carry \in BOOLEAN
BY DEF Regs

\* What a second makes of the registers, field by field.
LEMMA Ticked ==
  ASSUME NEW g \in Regs
  PROVE  tick_second(g) =
           [s |-> Next1(g, "s"),
            m |-> IF NewMinute(g) THEN Next1(g, "m") ELSE g.m,
            h |-> IF NewHour(g) THEN Next1(g, "h") ELSE g.h,
            dl |-> IF NewDay(g) THEN (Day(g) + 1) % DayLow ELSE g.dl,
            high |-> IF NewDay(g) THEN ((Day(g) + 1) \div DayLow) % 2 ELSE g.high,
            halt |-> g.halt,
            carry |-> IF NewDay(g) THEN g.carry \/ Day(g) + 1 = 2 * DayLow ELSE g.carry]
<1> DEFINE s1 == bumped(g, "s")
           m1 == bumped(g, "m")
           h1 == bumped(g, "h")
           e == ((Day(g) + 1) \div DayLow) % 2
           d == (Day(g) + 1) % DayLow
           y == g.carry \/ Day(g) + 1 = 2 * DayLow
           z == [g EXCEPT !.s = 0, !.m = 0, !.h = 0]
<1>1. /\ tick_second(g) =
           CASE ~carries(g, "s") -> [g EXCEPT !.s = s1]
             [] carries(g, "s") /\ ~carries(g, "m") -> [g EXCEPT !.s = 0, !.m = m1]
             [] carries(g, "s") /\ carries(g, "m") /\ ~carries(g, "h") ->
                  [g EXCEPT !.s = 0, !.m = 0, !.h = h1]
             [] OTHER -> next_day(z)
  BY DEF tick_second
<1>2. z = [s |-> 0, m |-> 0, h |-> 0, dl |-> g.dl, high |-> g.high, halt |-> g.halt,
           carry |-> g.carry]
  <2>1. z = [g EXCEPT !.s = 0, !.m = 0, !.h = 0]
    OBVIOUS
  <2> HIDE DEF z
  <2> QED BY <2>1 DEF Regs
<1>3. next_day(z) = [s |-> 0, m |-> 0, h |-> 0, dl |-> d, high |-> e, halt |-> g.halt,
                     carry |-> y]
  <2> HIDE DEF z
  <2>1. z.high * DayLow + z.dl + 1 = Day(g) + 1
    BY <1>2 DEF Day
  <2>2. next_day(z) = [z EXCEPT !.dl = d, !.high = e, !.carry = y]
    BY <1>2, <2>1 DEF next_day
  <2> HIDE DEF d, e, y
  <2> QED BY <1>2, <2>2
<1> HIDE DEF z, d, e, y, s1, m1, h1
<1>4. CASE ~carries(g, "s")
  <2>1. tick_second(g) = [g EXCEPT !.s = s1]
    BY <1>1, <1>4
  <2>2. tick_second(g) = [s |-> s1, m |-> g.m, h |-> g.h, dl |-> g.dl, high |-> g.high,
                          halt |-> g.halt, carry |-> g.carry]
    BY <2>1 DEF Regs
  <2> QED BY <1>4, <2>2 DEF Next1, NewMinute, NewHour, NewDay, s1
<1>5. CASE carries(g, "s") /\ ~carries(g, "m")
  <2>1. tick_second(g) = [g EXCEPT !.s = 0, !.m = m1]
    BY <1>1, <1>5
  <2>2. tick_second(g) = [s |-> 0, m |-> m1, h |-> g.h, dl |-> g.dl, high |-> g.high,
                          halt |-> g.halt, carry |-> g.carry]
    BY <2>1 DEF Regs
  <2> QED BY <1>5, <2>2 DEF Next1, NewMinute, NewHour, NewDay, m1
<1>6. CASE carries(g, "s") /\ carries(g, "m") /\ ~carries(g, "h")
  <2>1. tick_second(g) = [g EXCEPT !.s = 0, !.m = 0, !.h = h1]
    BY <1>1, <1>6
  <2>2. tick_second(g) = [s |-> 0, m |-> 0, h |-> h1, dl |-> g.dl, high |-> g.high,
                          halt |-> g.halt, carry |-> g.carry]
    BY <2>1 DEF Regs
  <2> QED BY <1>6, <2>2 DEF Next1, NewMinute, NewHour, NewDay, h1
<1>7. CASE carries(g, "s") /\ carries(g, "m") /\ carries(g, "h")
  <2>1. tick_second(g) = next_day(z)
    BY <1>1, <1>7
  <2> QED BY <1>3, <1>7, <2>1 DEF Next1, NewMinute, NewHour, NewDay, d, e, y
<1> QED BY <1>4, <1>5, <1>6, <1>7

\* The widths are positive, and the limits in them.
LEMMA Widths ==
  /\ CyclesPerSecond \in Nat \ {0} /\ DayLow \in Nat \ {0}
  /\ \A i \in Fields : Limit[i] \in Nat \ {0} /\ Width[i] \in Nat \ {0} /\ Limit[i] < Width[i]
BY RtcAssumption

\* A remainder.
LEMMA Rest ==
  ASSUME NEW n \in Nat, NEW d \in Nat \ {0}
  PROVE  /\ n % d \in 0..(d - 1) /\ n \div d \in Nat
         /\ n = d * (n \div d) + (n % d)
OBVIOUS

\* Every register stays in its bits.
LEMMA SecondTyped ==
  ASSUME NEW g \in Regs
  PROVE  tick_second(g) \in Regs /\ tick_second(g).halt = g.halt
<1>1. \A i \in Fields : g[i] \in Nat /\ bumped(g, i) \in 0..Width[i] - 1 /\ 0 \in 0..Width[i] - 1
  <2> TAKE i \in Fields
  <2>1. g[i] \in 0..Width[i] - 1 /\ Width[i] \in Nat \ {0}
    BY RegFields, Widths DEF Fields
  <2> DEFINE x == g[i]
             w == Width[i]
  <2>2. x \in 0..w - 1 /\ w \in Nat \ {0}
    BY <2>1
  <2> HIDE DEF x, w
  <2>3. x \in Nat /\ (x + 1) % w \in 0..w - 1 /\ 0 \in 0..w - 1
    BY <2>2, Rest
  <2> QED BY <2>3 DEF x, w, bumped
<1>2. \A i \in Fields : Next1(g, i) \in 0..Width[i] - 1
  BY <1>1 DEF Next1
<1>3. (Day(g) + 1) % DayLow \in 0..DayLow - 1 /\ ((Day(g) + 1) \div DayLow) % 2 \in {0, 1}
  <2> DEFINE d == Day(g) + 1
  <2>1. g.high \in {0, 1} /\ g.dl \in 0..DayLow - 1 /\ DayLow \in Nat \ {0}
    BY RegFields, Widths
  <2>2. d \in Nat
    <3>1. g.high * DayLow \in Nat /\ g.dl \in Nat
      BY <2>1
    <3> QED BY <3>1 DEF Day
  <2> HIDE DEF d
  <2>3. d % DayLow \in 0..DayLow - 1 /\ d \div DayLow \in Nat
    BY <2>1, <2>2, Rest
  <2> DEFINE e == d \div DayLow
  <2> HIDE DEF e
  <2>4. e \in Nat
    BY <2>3 DEF e
  <2>5. e % 2 \in {0, 1}
    BY <2>4
  <2> QED BY <2>3, <2>5 DEF d, e
<1>4. {"s", "m", "h"} = Fields
  BY DEF Fields
<1>5. (g.carry \/ Day(g) + 1 = 2 * DayLow) \in BOOLEAN
  OBVIOUS
<1> DEFINE s2 == Next1(g, "s")
           m2 == IF NewMinute(g) THEN Next1(g, "m") ELSE g.m
           h2 == IF NewHour(g) THEN Next1(g, "h") ELSE g.h
           d2 == IF NewDay(g) THEN (Day(g) + 1) % DayLow ELSE g.dl
           e2 == IF NewDay(g) THEN ((Day(g) + 1) \div DayLow) % 2 ELSE g.high
           c2 == IF NewDay(g) THEN g.carry \/ Day(g) + 1 = 2 * DayLow ELSE g.carry
<1>6. tick_second(g) = [s |-> s2, m |-> m2, h |-> h2, dl |-> d2, high |-> e2,
                        halt |-> g.halt, carry |-> c2]
  BY Ticked
<1>7. /\ s2 \in 0..Width["s"] - 1 /\ m2 \in 0..Width["m"] - 1 /\ h2 \in 0..Width["h"] - 1
  BY <1>2, <1>4, RegFields
<1>8. d2 \in 0..DayLow - 1 /\ e2 \in {0, 1} /\ c2 \in BOOLEAN
  BY <1>3, <1>5, RegFields
<1>9. g.halt \in BOOLEAN
  BY RegFields
<1> HIDE DEF s2, m2, h2, d2, e2, c2
<1> QED BY <1>6, <1>7, <1>8, <1>9 DEF Regs

-----------------------------------------------------------------------------
(* Many seconds: the recursive function exists. *)

\* a is what the registers are for the first n seconds.
Counts(a, g, n) ==
  /\ a \in [0..n -> Regs] /\ a[0] = g
  /\ \A k \in Nat : k < n => a[k + 1] = tick_second(a[k])

\* There is such an account of any number of seconds.
LEMMA CountExists ==
  ASSUME NEW g \in Regs
  PROVE  \A n \in Nat : \E a : Counts(a, g, n)
<1> DEFINE T == {n \in Nat : \E a : Counts(a, g, n)}
<1>1. 0 \in T
  <2> DEFINE a == [k \in 0..0 |-> g]
  <2>1. a \in [0..0 -> Regs] /\ a[0] = g
    OBVIOUS
  <2>2. \A k \in Nat : ~(k < 0)
    OBVIOUS
  <2> HIDE DEF a
  <2>3. Counts(a, g, 0)
    BY <2>1, <2>2 DEF Counts
  <2> QED BY <2>3
<1>2. ASSUME NEW n \in Nat, n \in T PROVE n + 1 \in T
  <2>1. PICK a : Counts(a, g, n)
    BY <1>2
  <2> DEFINE b == [k \in 0..n + 1 |-> IF k = n + 1 THEN tick_second(a[n]) ELSE a[k]]
  <2>2. a \in [0..n -> Regs] /\ a[0] = g /\ \A k \in Nat : k < n => a[k + 1] = tick_second(a[k])
    BY <2>1 DEF Counts
  <2>3. a[n] \in Regs /\ tick_second(a[n]) \in Regs
    BY <2>2, SecondTyped
  <2>4. b \in [0..n + 1 -> Regs]
    <3>1. \A k \in 0..n + 1 : k # n + 1 => k \in 0..n
      OBVIOUS
    <3> QED BY <2>2, <2>3, <3>1
  <2>5. b[0] = g
    BY <2>2
  <2>6. ASSUME NEW k \in Nat, k < n + 1 PROVE b[k + 1] = tick_second(b[k])
    <3>1. b[k] = a[k]
      BY <2>6
    <3>2. CASE k = n
      BY <3>1, <3>2
    <3>3. CASE k # n
      <4>1. k < n /\ k + 1 \in 0..n + 1 /\ k + 1 # n + 1
        BY <2>6, <3>3
      <4>2. b[k + 1] = a[k + 1]
        BY <4>1
      <4> QED BY <2>2, <3>1, <4>1, <4>2
    <3> QED BY <3>2, <3>3
  <2> HIDE DEF b
  <2>7. Counts(b, g, n + 1)
    BY <2>4, <2>5, <2>6 DEF Counts
  <2> QED BY <2>7
<1> HIDE DEF T
<1>3. \A n \in Nat : n \in T
  BY <1>1, <1>2, AllNumbers
<1> QED BY <1>3 DEF T

\* Two accounts agree as far as both go.
LEMMA CountUnique ==
  ASSUME NEW g \in Regs, NEW m \in Nat, NEW n \in Nat, NEW a, NEW b,
         Counts(a, g, m), Counts(b, g, n)
  PROVE  \A k \in Nat : k <= m /\ k <= n => a[k] = b[k]
<1> DEFINE T == {k \in Nat : k <= m /\ k <= n => a[k] = b[k]}
<1>1. 0 \in T
  BY DEF Counts
<1>2. ASSUME NEW k \in Nat, k \in T PROVE k + 1 \in T
  <2> SUFFICES ASSUME k + 1 <= m, k + 1 <= n PROVE a[k + 1] = b[k + 1]
    OBVIOUS
  <2>1. k < m /\ k < n /\ k <= m /\ k <= n
    OBVIOUS
  <2>2. a[k] = b[k]
    BY <1>2, <2>1
  <2> QED BY <2>1, <2>2 DEF Counts
<1> HIDE DEF T
<1>3. \A k \in Nat : k \in T
  BY <1>1, <1>2, AllNumbers
<1> QED BY <1>3 DEF T

\* The registers second by second, as the loop of tick_cycles has them.
LEMMA Counting ==
  ASSUME NEW g \in Regs
  PROVE  LET f == seconds_from(g)
         IN  /\ f \in [Nat -> Regs] /\ f[0] = g
             /\ \A n \in Nat : f[n + 1] = tick_second(f[n])
<1> DEFINE A(n) == CHOOSE a : Counts(a, g, n)
           e == [n \in Nat |-> A(n)[n]]
           Def(f) == f = [n \in Nat |-> IF n = 0 THEN g ELSE tick_second(f[n - 1])]
           after == CHOOSE f : Def(f)
<1>1. \A n \in Nat : Counts(A(n), g, n)
  BY CountExists
<1> HIDE DEF A
<1>2. \A n \in Nat : A(n)[n] \in Regs
  BY <1>1 DEF Counts
<1>3. A(0)[0] = g
  BY <1>1 DEF Counts
<1>4. ASSUME NEW n \in Nat, n # 0 PROVE A(n)[n] = tick_second(A(n - 1)[n - 1])
  <2> DEFINE k == n - 1
  <2>1. k \in Nat /\ k + 1 = n /\ k < n /\ k <= n /\ k <= k
    BY <1>4
  <2> HIDE DEF k
  <2>2. Counts(A(n), g, n) /\ Counts(A(k), g, k)
    BY <1>1, <2>1
  <2>3. A(n)[k] = A(k)[k]
    BY <2>1, <2>2, CountUnique
  <2>4. A(n)[k + 1] = tick_second(A(n)[k])
    BY <2>1, <2>2 DEF Counts
  <2> QED BY <2>1, <2>3, <2>4 DEF k
<1>5. Def(e)
  <2>1. \A n \in Nat : n # 0 => n - 1 \in Nat
    OBVIOUS
  <2>2. \A n \in Nat : e[n] = IF n = 0 THEN g ELSE tick_second(e[n - 1])
    BY <1>3, <1>4, <2>1
  <2> HIDE DEF e
  <2>3. e = [n \in Nat |-> e[n]]
    BY DEF e
  <2> QED BY <2>2, <2>3
<1>6. Def(after)
  <2> HIDE DEF e, Def
  <2> QED BY <1>5
<1>7. seconds_from(g) = after
  BY DEF seconds_from
<1> DEFINE f == seconds_from(g)
<1> HIDE DEF after
<1>8. f = [n \in Nat |-> IF n = 0 THEN g ELSE tick_second(f[n - 1])]
  BY <1>6, <1>7
<1> HIDE DEF f, e
<1>9. f[0] = g
  BY <1>8
<1>10. \A n \in Nat : f[n + 1] = tick_second(f[n])
  <2> TAKE n \in Nat
  <2>1. n + 1 \in Nat /\ n + 1 # 0 /\ n + 1 - 1 = n
    OBVIOUS
  <2> QED BY <1>8, <2>1
<1>11. f \in [Nat -> Regs]
  <2> DEFINE T == {n \in Nat : f[n] \in Regs}
  <2>1. 0 \in T
    BY <1>9
  <2>2. ASSUME NEW n \in Nat, n \in T PROVE n + 1 \in T
    BY <1>10, <2>2, SecondTyped
  <2> HIDE DEF T
  <2>3. \A n \in Nat : n \in T
    BY <2>1, <2>2, AllNumbers
  <2>4. \A n \in Nat : f[n] \in Regs
    BY <2>3 DEF T
  <2>5. f = [n \in Nat |-> f[n]]
    <3> DEFINE d == [n \in Nat |-> IF n = 0 THEN g ELSE tick_second(f[n - 1])]
    <3>1. d = [n \in Nat |-> d[n]]
      OBVIOUS
    <3> HIDE DEF d
    <3>2. f = d
      BY <1>8 DEF d
    <3> QED BY <3>1, <3>2
  <2> QED BY <2>4, <2>5
<1> QED BY <1>9, <1>10, <1>11 DEF f

\* Counting on from where one has got to.
LEMMA CountingOn ==
  ASSUME NEW g \in Regs, NEW m \in Nat
  PROVE  \A n \in Nat : seconds_from(seconds_from(g)[m])[n] = seconds_from(g)[m + n]
<1> DEFINE f == seconds_from(g)
           k == seconds_from(f[m])
           T == {n \in Nat : k[n] = f[m + n]}
<1>1. /\ f \in [Nat -> Regs] /\ f[0] = g
      /\ \A n \in Nat : f[n + 1] = tick_second(f[n])
  BY Counting
<1> HIDE DEF f
<1>2. f[m] \in Regs
  BY <1>1
<1>3. k[0] = f[m] /\ \A n \in Nat : k[n + 1] = tick_second(k[n])
  BY <1>2, Counting
<1> HIDE DEF k
<1>4. 0 \in T
  BY <1>3
<1>5. ASSUME NEW n \in Nat, n \in T PROVE n + 1 \in T
  <2>1. k[n + 1] = tick_second(f[m + n])
    BY <1>3, <1>5
  <2>2. m + n \in Nat /\ m + (n + 1) = m + n + 1
    OBVIOUS
  <2>3. f[m + n + 1] = tick_second(f[m + n])
    BY <1>1, <2>2
  <2> QED BY <2>1, <2>2, <2>3
<1> HIDE DEF T
<1>6. \A n \in Nat : n \in T
  BY <1>4, <1>5, AllNumbers
<1> QED BY <1>6 DEF T, f, k

-----------------------------------------------------------------------------
(* Numbers of several digits. *)

\* What is left over, and how often.
LEMMA Quotient ==
  ASSUME NEW n \in Nat, NEW d \in Nat \ {0}, NEW q \in Nat, NEW x \in Nat,
         x < d, n = d * q + x
  PROVE  n \div d = q /\ n % d = x
OBVIOUS

\* A digit more of a number below b.
LEMMA Digit ==
  ASSUME NEW b \in Nat, NEW l \in Nat \ {0}, NEW n \in Nat, NEW x \in Nat, n < b, x < l
  PROVE  n * l + x \in Nat /\ n * l + x < b * l /\ b * l \in Nat
<1>1. PICK c \in Nat : b = n + 1 + c
  <2>1. b - n - 1 \in Nat /\ b = n + 1 + (b - n - 1)
    OBVIOUS
  <2> QED BY <2>1
<1>2. b * l = n * l + l + c * l
  BY <1>1
<1>3. n * l \in Nat /\ c * l \in Nat
  OBVIOUS
<1> QED BY <1>2, <1>3

\* Counting up by one in the last digit.
LEMMA DigitUp ==
  ASSUME NEW l \in Nat \ {0}, NEW n \in Nat, NEW x \in Nat
  PROVE  /\ n * l + (x + 1) = n * l + x + 1
         /\ x + 1 = l => (n + 1) * l + 0 = n * l + x + 1
<1>1. (n + 1) * l = n * l + l /\ n * l \in Nat
  OBVIOUS
<1> QED BY <1>1

\* The counters of a clock that is in range.
Counter(g) ==
  /\ g \in Regs /\ InRange(g)
Hours(g) == Day(g) * Limit["h"] + g["h"]
Minutes(g) == Hours(g) * Limit["m"] + g["m"]
PeriodSeconds == Days * Limit["h"] * Limit["m"] * Limit["s"]

\* They are digits.
LEMMA Digits ==
  ASSUME NEW g, Counter(g)
  PROVE  /\ \A i \in Fields : /\ g[i] \in Nat /\ g[i] < Limit[i]
                              /\ bumped(g, i) = g[i] + 1
                              /\ (carries(g, i) <=> g[i] + 1 = Limit[i])
         /\ Day(g) \in Nat /\ Day(g) < Days /\ Days \in Nat
<1>1. ASSUME NEW i \in Fields
      PROVE  /\ g[i] \in Nat /\ g[i] < Limit[i] /\ bumped(g, i) = g[i] + 1
             /\ carries(g, i) <=> g[i] + 1 = Limit[i]
  <2> DEFINE x == g[i]
             l == Limit[i]
             w == Width[i]
  <2>1. x \in 0..w - 1 /\ w \in Nat \ {0} /\ l \in Nat \ {0} /\ l < w /\ x < l
    BY RegFields, Widths DEF Fields, Counter, InRange
  <2> HIDE DEF x, l, w
  <2>2. x \in Nat /\ x + 1 \in Nat /\ x + 1 < w /\ x + 1 = w * 0 + (x + 1)
    BY <2>1
  <2>3. (x + 1) % w = x + 1
    BY <2>1, <2>2, Quotient
  <2> QED BY <2>1, <2>2, <2>3 DEF x, l, w, bumped, carries
<1>2. g.high \in {0, 1} /\ g.dl \in 0..DayLow - 1 /\ DayLow \in Nat \ {0}
  BY RegFields, Widths DEF Counter
<1>3. Day(g) \in Nat /\ Day(g) < Days /\ Days \in Nat
  <2> DEFINE a == g.high
             b == g.dl
  <2>1. Day(g) = a * DayLow + b /\ Days = 2 * DayLow
    BY DEF Day, Days
  <2>2. a \in {0, 1} /\ b \in 0..DayLow - 1
    BY <1>2
  <2> HIDE DEF a, b
  <2>3. a * DayLow + b \in Nat /\ a * DayLow + b < 2 * DayLow /\ 2 * DayLow \in Nat
    BY <1>2, <2>2
  <2> QED BY <2>1, <2>3
<1> QED BY <1>1, <1>3

\* The time of such a clock is below the period.
LEMMA TimeBelow ==
  ASSUME NEW g, Counter(g)
  PROVE  /\ Hours(g) \in Nat /\ Minutes(g) \in Nat /\ Second(g) \in Nat
         /\ Second(g) = Minutes(g) * Limit["s"] + g["s"]
         /\ Second(g) < PeriodSeconds /\ PeriodSeconds \in Nat \ {0}
<1> DEFINE ls == Limit["s"]
           lm == Limit["m"]
           lh == Limit["h"]
           xs == g["s"]
           xm == g["m"]
           xh == g["h"]
           d == Day(g)
           hs == d * lh + xh
           ms == hs * lm + xm
           ss == ms * ls + xs
           bh == Days * lh
           bm == bh * lm
           bs == bm * ls
<1>1. ls \in Nat \ {0} /\ lm \in Nat \ {0} /\ lh \in Nat \ {0}
  BY Widths DEF Fields
<1>2. /\ xs \in Nat /\ xm \in Nat /\ xh \in Nat /\ xs < ls /\ xm < lm /\ xh < lh
      /\ d \in Nat /\ d < Days /\ Days \in Nat
  BY Digits DEF Fields
<1> HIDE DEF ls, lm, lh, xs, xm, xh, d
<1>3. hs \in Nat /\ hs < bh /\ bh \in Nat
  BY <1>1, <1>2, Digit
<1> HIDE DEF hs, bh
<1>4. ms \in Nat /\ ms < bm /\ bm \in Nat
  BY <1>1, <1>2, <1>3, Digit
<1> HIDE DEF ms, bm
<1>5. ss \in Nat /\ ss < bs /\ bs \in Nat
  BY <1>1, <1>2, <1>4, Digit
<1>6. Second(g) = ss /\ Hours(g) = hs /\ Minutes(g) = ms /\ PeriodSeconds = bs
  BY DEF Second, Hours, Minutes, PeriodSeconds, ss, ms, hs, bs, bm, bh, d, ls, lm, lh, xs,
     xm, xh, Day
<1> HIDE DEF ss, bs
<1>7. bs # 0
  BY <1>5
<1> QED BY <1>3, <1>4, <1>5, <1>6, <1>7 DEF ss, ls, xs

-----------------------------------------------------------------------------
(* A second of a clock that is in range. *)

\* The day after: its bits are those of the number, and the last one is followed by 0.
LEMMA DayUp ==
  ASSUME NEW d \in Nat, d < Days
  PROVE  (((d + 1) \div DayLow) % 2) * DayLow + ((d + 1) % DayLow)
           = IF d + 1 = Days THEN 0 ELSE d + 1
<1> DEFINE n == d + 1
           q == n \div DayLow
           x == n % DayLow
<1>1. DayLow \in Nat \ {0} /\ n \in Nat /\ Days = 2 * DayLow
  BY Widths DEF Days
<1>2. n <= 2 * DayLow
  BY <1>1
<1> HIDE DEF n
<1>3. q \in Nat /\ x \in Nat /\ x < DayLow /\ n = DayLow * q + x
  <2>1. /\ n % DayLow \in 0..DayLow - 1 /\ n \div DayLow \in Nat
        /\ n = DayLow * (n \div DayLow) + (n % DayLow)
    BY <1>1, Rest
  <2> HIDE DEF q, x
  <2>2. x \in 0..DayLow - 1 /\ q \in Nat /\ n = DayLow * q + x
    BY <2>1 DEF q, x
  <2> QED BY <1>1, <2>2
<1> HIDE DEF q, x
<1>4. q = 0 \/ q = 1 \/ q >= 2
  BY <1>3
<1>5. CASE q = 0
  <2>1. q % 2 = 0 /\ n = x
    BY <1>1, <1>3, <1>5
  <2>2. n # 2 * DayLow /\ 0 * DayLow + x = x
    BY <1>1, <1>3, <2>1
  <2> QED BY <1>1, <2>1, <2>2 DEF n, q, x
<1>6. CASE q = 1
  <2>1. q % 2 = 1 /\ n = DayLow + x
    BY <1>1, <1>3, <1>6
  <2>2. n # 2 * DayLow /\ 1 * DayLow + x = n
    BY <1>1, <1>3, <2>1
  <2> QED BY <1>1, <2>1, <2>2 DEF n, q, x
<1>7. CASE q >= 2
  <2>1. PICK c \in Nat : q = 2 + c
    <3>1. q - 2 \in Nat /\ q = 2 + (q - 2)
      BY <1>3, <1>7
    <3> QED BY <3>1
  <2>2. n = 2 * DayLow + DayLow * c + x /\ DayLow * c \in Nat
    BY <1>1, <1>3, <2>1
  <2>3. DayLow * c = 0 /\ x = 0
    BY <1>1, <1>2, <1>3, <2>2
  <2>4. c = 0
    BY <1>1, <2>1, <2>3
  <2>5. q = 2 /\ q % 2 = 0 /\ n = 2 * DayLow /\ 0 * DayLow + x = 0
    BY <1>1, <2>1, <2>2, <2>3, <2>4
  <2> QED BY <1>1, <2>5 DEF n, q, x
<1> QED BY <1>4, <1>5, <1>6, <1>7

\* A second is counted by the whole clock, and the last one of the period begins another.
LEMMA SecondUp ==
  ASSUME NEW g, Counter(g)
  PROVE  LET n == tick_second(g)
         IN  /\ Counter(n)
             /\ Second(n) = IF Second(g) + 1 = PeriodSeconds THEN 0 ELSE Second(g) + 1
             /\ n.carry = (g.carry \/ Second(g) + 1 = PeriodSeconds)
<1> DEFINE n == tick_second(g)
           ls == Limit["s"]
           lm == Limit["m"]
           lh == Limit["h"]
           d == Day(g)
<1>1. ls \in Nat \ {0} /\ lm \in Nat \ {0} /\ lh \in Nat \ {0}
  BY Widths DEF Fields
<1>2. g \in Regs /\ n \in Regs
  BY SecondTyped DEF Counter
<1>3. /\ n["s"] = Next1(g, "s")
      /\ n["m"] = (IF NewMinute(g) THEN Next1(g, "m") ELSE g["m"])
      /\ n["h"] = (IF NewHour(g) THEN Next1(g, "h") ELSE g["h"])
      /\ n.dl = (IF NewDay(g) THEN (d + 1) % DayLow ELSE g.dl)
      /\ n.high = (IF NewDay(g) THEN ((d + 1) \div DayLow) % 2 ELSE g.high)
      /\ n.carry = (IF NewDay(g) THEN g.carry \/ d + 1 = 2 * DayLow ELSE g.carry)
  BY <1>2, Ticked
<1>4. ASSUME NEW i \in Fields
      PROVE  /\ g[i] \in Nat /\ g[i] < Limit[i] /\ Limit[i] \in Nat \ {0}
             /\ carries(g, i) <=> g[i] + 1 = Limit[i]
             /\ Next1(g, i) = (IF carries(g, i) THEN 0 ELSE g[i] + 1)
             /\ Next1(g, i) < Limit[i]
  <2>1. /\ g[i] \in Nat /\ g[i] < Limit[i] /\ bumped(g, i) = g[i] + 1
        /\ carries(g, i) <=> g[i] + 1 = Limit[i]
        /\ Limit[i] \in Nat \ {0}
    BY Digits, Widths
  <2> DEFINE x == g[i]
             l == Limit[i]
             y == Next1(g, i)
             c == carries(g, i)
  <2>2. x \in Nat /\ x < l /\ l \in Nat \ {0} /\ (c <=> x + 1 = l) /\ y = (IF c THEN 0 ELSE x + 1)
    BY <2>1 DEF Next1
  <2> HIDE DEF x, l, y, c
  <2>3. y < l
    BY <2>2
  <2> QED BY <2>1, <2>2, <2>3 DEF x, l, y, c
<1>5. {"s", "m", "h"} = Fields
  BY DEF Fields
<1>6. Counter(n)
  <2>1. n["s"] < ls /\ n["m"] < lm /\ n["h"] < lh
    BY <1>3, <1>4, <1>5
  <2> QED BY <1>2, <1>5, <2>1 DEF Counter, InRange
<1>7. d \in Nat /\ d < Days /\ Days \in Nat /\ Days = 2 * DayLow
  BY Digits DEF Days
<1>8. /\ Day(n) = (IF NewDay(g) THEN IF d + 1 = Days THEN 0 ELSE d + 1 ELSE d)
      /\ n.carry = (IF NewDay(g) THEN g.carry \/ d + 1 = Days ELSE g.carry)
  <2>1. CASE NewDay(g)
    <3>1. Day(n) = (((d + 1) \div DayLow) % 2) * DayLow + ((d + 1) % DayLow)
      BY <1>3, <2>1 DEF Day
    <3>2. Day(n) = IF d + 1 = Days THEN 0 ELSE d + 1
      BY <1>7, <3>1, DayUp
    <3> QED BY <1>3, <1>7, <2>1, <3>2
  <2>2. CASE ~NewDay(g)
    BY <1>3, <2>2 DEF Day
  <2> QED BY <2>1, <2>2
<1> DEFINE xs == g["s"]
           xm == g["m"]
           xh == g["h"]
           ys == n["s"]
           ym == n["m"]
           yh == n["h"]
           e == Day(n)
           cs == NewMinute(g)
           cm == NewHour(g)
           ch == NewDay(g)
           last == ch /\ d + 1 = Days
<1>9. /\ xs \in Nat /\ xm \in Nat /\ xh \in Nat /\ ls \in Nat \ {0} /\ lm \in Nat \ {0}
      /\ lh \in Nat \ {0} /\ d \in Nat
      /\ cs <=> xs + 1 = ls
      /\ cm <=> cs /\ xm + 1 = lm
      /\ ch <=> cm /\ xh + 1 = lh
      /\ ys = (IF cs THEN 0 ELSE xs + 1)
      /\ ym = (IF cs THEN IF cm THEN 0 ELSE xm + 1 ELSE xm)
      /\ yh = (IF cm THEN IF ch THEN 0 ELSE xh + 1 ELSE xh)
      /\ e = (IF ch THEN IF last THEN 0 ELSE d + 1 ELSE d)
  <2>1. cs <=> xs + 1 = ls
    BY <1>4, <1>5 DEF NewMinute
  <2>2. cm <=> cs /\ xm + 1 = lm
    BY <1>4, <1>5 DEF NewHour
  <2>3. ch <=> cm /\ xh + 1 = lh
    BY <1>4, <1>5 DEF NewDay
  <2>4. ys = (IF cs THEN 0 ELSE xs + 1)
    BY <1>3, <1>4, <1>5 DEF NewMinute
  <2>5. ym = (IF cs THEN IF cm THEN 0 ELSE xm + 1 ELSE xm)
    BY <1>3, <1>4, <1>5 DEF NewMinute, NewHour
  <2>6. yh = (IF cm THEN IF ch THEN 0 ELSE xh + 1 ELSE xh)
    BY <1>3, <1>4, <1>5 DEF NewHour, NewDay
  <2>7. e = (IF ch THEN IF last THEN 0 ELSE d + 1 ELSE d)
    BY <1>8
  <2>8. xs \in Nat /\ xm \in Nat /\ xh \in Nat
    BY <1>4, <1>5
  <2> QED BY <1>1, <1>7, <2>1, <2>2, <2>3, <2>4, <2>5, <2>6, <2>7, <2>8
<1> DEFINE hs == d * lh + xh
           ms == hs * lm + xm
           ss == ms * ls + xs
           ht == e * lh + yh
           mt == ht * lm + ym
           st == mt * ls + ys
<1>10. /\ Second(g) = ss /\ Second(n) = st
  <2>1. Hours(g) = hs /\ Minutes(g) = ms /\ Hours(n) = ht /\ Minutes(n) = mt
    BY DEF Hours, Minutes
  <2>2. Second(g) = Minutes(g) * Limit["s"] + g["s"] /\ Second(n) = Minutes(n) * Limit["s"] + n["s"]
    BY <1>6, TimeBelow
  <2> QED BY <2>1, <2>2
<1>11. st < PeriodSeconds /\ ss < PeriodSeconds /\ PeriodSeconds \in Nat \ {0} /\ ss \in Nat
  <2>1. Second(n) < PeriodSeconds /\ Second(g) < PeriodSeconds /\ PeriodSeconds \in Nat \ {0}
        /\ Second(g) \in Nat
    BY <1>6, TimeBelow
  <2> QED BY <1>10, <2>1
<1>12. PeriodSeconds = Days * lh * lm * ls
  BY DEF PeriodSeconds
<1>13. n.carry = (g.carry \/ last)
  <2>1. g.carry \in BOOLEAN /\ n.carry \in BOOLEAN
    BY <1>2, RegFields
  <2> QED BY <1>8, <2>1
<1> DEFINE P == PeriodSeconds
<1> HIDE DEF n, ls, lm, lh, xs, xm, xh, ys, ym, yh, d, e, cs, cm, ch, P, last
<1>14. CASE ~last
  <2>1. ht = (IF cm THEN hs + 1 ELSE hs)
    <3>1. CASE ~cm
      BY <1>9, <1>14, <3>1
    <3>2. CASE cm /\ ch
      <4>1. e = d + 1 /\ yh = 0 /\ xh + 1 = lh
        BY <1>9, <1>14, <3>2
      <4>2. (d + 1) * lh + 0 = d * lh + xh + 1
        BY <1>9, <4>1, DigitUp
      <4> QED BY <3>2, <4>1, <4>2
    <3>3. CASE cm /\ ~ch
      <4>1. e = d /\ yh = xh + 1
        BY <1>9, <3>3
      <4>2. d * lh + (xh + 1) = d * lh + xh + 1
        BY <1>9, DigitUp
      <4> QED BY <3>3, <4>1, <4>2
    <3> QED BY <3>1, <3>2, <3>3
  <2>2. hs \in Nat
    BY <1>9
  <2> HIDE DEF hs, ht
  <2>3. mt = (IF cs THEN ms + 1 ELSE ms)
    <3>1. CASE ~cs
      BY <1>9, <2>1, <3>1
    <3>2. CASE cs /\ cm
      <4>1. ht = hs + 1 /\ ym = 0 /\ xm + 1 = lm
        BY <1>9, <2>1, <3>2
      <4>2. (hs + 1) * lm + 0 = hs * lm + xm + 1
        BY <1>9, <2>2, <4>1, DigitUp
      <4> QED BY <3>2, <4>1, <4>2
    <3>3. CASE cs /\ ~cm
      <4>1. ht = hs /\ ym = xm + 1
        BY <1>9, <2>1, <3>3
      <4>2. hs * lm + (xm + 1) = hs * lm + xm + 1
        BY <1>9, <2>2, DigitUp
      <4> QED BY <3>3, <4>1, <4>2
    <3> QED BY <3>1, <3>2, <3>3
  <2>4. ms \in Nat
    BY <1>9, <2>2
  <2> HIDE DEF ms, mt
  <2>5. st = ss + 1
    <3>1. CASE cs
      <4>1. mt = ms + 1 /\ ys = 0 /\ xs + 1 = ls
        BY <1>9, <2>3, <3>1
      <4>2. (ms + 1) * ls + 0 = ms * ls + xs + 1
        BY <1>9, <2>4, <4>1, DigitUp
      <4> QED BY <4>1, <4>2
    <3>2. CASE ~cs
      <4>1. mt = ms /\ ys = xs + 1
        BY <1>9, <2>3, <3>2
      <4>2. ms * ls + (xs + 1) = ms * ls + xs + 1
        BY <1>9, <2>4, DigitUp
      <4> QED BY <4>1, <4>2
    <3> QED BY <3>1, <3>2
  <2> HIDE DEF ss, st
  <2>6. ss + 1 # PeriodSeconds
    <3> USE DEF P
    <3>1. st < P /\ P \in Nat /\ ss \in Nat
      BY <1>11
    <3> HIDE DEF P
    <3>2. ss + 1 # P
      BY <2>5, <3>1
    <3> QED BY <3>2 DEF P
  <2> QED BY <1>6, <1>10, <1>13, <1>14, <2>5, <2>6 DEF n
<1>15. CASE last
  <2>1. ch /\ cm /\ cs /\ d + 1 = Days /\ e = 0 /\ yh = 0 /\ ym = 0 /\ ys = 0
        /\ xh + 1 = lh /\ xm + 1 = lm /\ xs + 1 = ls
    <3>1. ch /\ d + 1 = Days
      BY <1>15 DEF last
    <3> QED BY <1>9, <1>15, <3>1
  <2>2. ht = 0 /\ hs \in Nat /\ hs + 1 = Days * lh
    <3>1. (d + 1) * lh + 0 = d * lh + xh + 1
      BY <1>9, <2>1, DigitUp
    <3> QED BY <1>9, <2>1, <3>1
  <2> DEFINE bh == Days * lh
             bm == bh * lm
             bs == bm * ls
  <2> HIDE DEF hs, ht
  <2>3. mt = 0 /\ ms \in Nat /\ ms + 1 = bm
    <3>1. (hs + 1) * lm + 0 = hs * lm + xm + 1
      BY <1>9, <2>1, <2>2, DigitUp
    <3>2. (hs + 1) * lm = bm
      BY <2>2
    <3> HIDE DEF bh, bm
    <3> QED BY <1>9, <2>1, <2>2, <3>1, <3>2
  <2> HIDE DEF ms, mt, bm
  <2>4. st = 0 /\ ss + 1 = bs
    <3>1. (ms + 1) * ls + 0 = ms * ls + xs + 1
      BY <1>9, <2>1, <2>3, DigitUp
    <3>2. (ms + 1) * ls = bs
      BY <2>3
    <3> HIDE DEF bs
    <3> QED BY <1>9, <2>1, <2>3, <3>1, <3>2
  <2> HIDE DEF ss, st
  <2>5. ss + 1 = PeriodSeconds
    BY <1>12, <2>4 DEF bm
  <2> QED BY <1>6, <1>10, <1>13, <1>15, <2>4, <2>5 DEF n
<1> QED BY <1>14, <1>15

-----------------------------------------------------------------------------
(* Many seconds of a clock that is in range. *)

\* What is left over counts up, and starts again where it is full.
LEMMA RestUp ==
  ASSUME NEW n \in Nat, NEW d \in Nat \ {0}
  PROVE  (n + 1) % d = IF (n % d) + 1 = d THEN 0 ELSE (n % d) + 1
<1> DEFINE q == n \div d
           x == n % d
<1>1. x \in 0..d - 1 /\ q \in Nat /\ n = d * q + x
  BY Rest
<1> HIDE DEF q, x
<1>2. CASE x + 1 = d
  <2>1. q + 1 \in Nat /\ n + 1 = d * (q + 1) + 0 /\ 0 < d /\ n + 1 \in Nat
    BY <1>1, <1>2
  <2>2. (n + 1) % d = 0
    BY <2>1, Quotient
  <2> QED BY <1>2, <2>2 DEF x
<1>3. CASE x + 1 # d
  <2>1. x + 1 \in Nat /\ n + 1 = d * q + (x + 1) /\ x + 1 < d /\ n + 1 \in Nat
    BY <1>1, <1>3
  <2>2. (n + 1) % d = x + 1
    BY <1>1, <2>1, Quotient
  <2> QED BY <1>3, <2>2 DEF x
<1> QED BY <1>2, <1>3

\* A clock in range stays in range, counts every second, and keeps the carry of the period.
LEMMA SecondsUp ==
  ASSUME NEW g, Counter(g)
  PROVE  \A n \in Nat :
           LET f == seconds_from(g)[n]
           IN  /\ Counter(f)
               /\ Second(f) = ((Second(g) + n) % PeriodSeconds)
               /\ f.carry = (g.carry \/ Second(g) + n >= PeriodSeconds)
<1> DEFINE f == seconds_from(g)
           P == PeriodSeconds
           S == Second(g)
           Up(n) == /\ Counter(f[n])
                    /\ Second(f[n]) = ((S + n) % P)
                    /\ f[n].carry = (g.carry \/ S + n >= P)
           T == {n \in Nat : Up(n)}
<1>1. g \in Regs
  BY DEF Counter
<1>2. f[0] = g /\ \A n \in Nat : f[n + 1] = tick_second(f[n])
  BY <1>1, Counting
<1>3. P \in Nat \ {0} /\ S \in Nat /\ S < P
  BY TimeBelow
<1>4. g.carry \in BOOLEAN
  BY <1>1, RegFields
<1> HIDE DEF f, P, S
<1>5. 0 \in T
  <2>1. S = P * 0 + S /\ S + 0 = S /\ ~(S + 0 >= P)
    BY <1>3
  <2>2. S % P = S
    BY <1>3, <2>1, Quotient
  <2>3. Second(f[0]) = ((S + 0) % P)
    BY <1>2, <2>1, <2>2 DEF S
  <2>4. f[0].carry = (g.carry \/ S + 0 >= P)
    BY <1>2, <1>4, <2>1
  <2> QED BY <1>2, <2>3, <2>4
<1>6. ASSUME NEW n \in Nat, n \in T PROVE n + 1 \in T
  <2> DEFINE o == f[n]
             t == tick_second(o)
             x == (S + n) % P
  <2>1. Counter(o) /\ Second(o) = x /\ o.carry = (g.carry \/ S + n >= P)
    BY <1>6
  <2> HIDE DEF o, x
  <2>2. /\ Counter(t) /\ Second(t) = (IF Second(o) + 1 = P THEN 0 ELSE Second(o) + 1)
        /\ t.carry = (o.carry \/ Second(o) + 1 = P)
    BY <2>1, SecondUp DEF P
  <2> HIDE DEF t
  <2>3. (S + n + 1) % P = (IF x + 1 = P THEN 0 ELSE x + 1)
    <3>1. S + n \in Nat
      BY <1>3
    <3> QED BY <1>3, <3>1, RestUp DEF x
  <2>4. S + n < P => x = S + n
    <3> SUFFICES ASSUME S + n < P PROVE (S + n) % P = S + n
      BY DEF x
    <3>1. S + n \in Nat /\ S + n = P * 0 + (S + n)
      BY <1>3
    <3> QED BY <1>3, <3>1, Quotient
  <2>5. (S + n >= P \/ x + 1 = P) <=> S + (n + 1) >= P
    <3>1. x \in Nat /\ x < P
      <4>1. S + n \in Nat
        BY <1>3
      <4>2. (S + n) % P \in 0..P - 1
        BY <1>3, <4>1, Rest
      <4>3. x \in 0..P - 1
        BY <4>2 DEF x
      <4> QED BY <1>3, <4>3
    <3> QED BY <1>3, <2>4, <3>1
  <2>6. S + (n + 1) = S + n + 1
    BY <1>3
  <2>7. f[n + 1] = t
    BY <1>2 DEF t, o
  <2>8. Second(f[n + 1]) = ((S + (n + 1)) % P)
    BY <2>1, <2>2, <2>3, <2>6, <2>7
  <2>9. f[n + 1].carry = (g.carry \/ S + (n + 1) >= P)
    BY <1>4, <2>1, <2>2, <2>5, <2>7
  <2>10. Counter(f[n + 1])
    BY <2>2, <2>7
  <2> QED BY <2>8, <2>9, <2>10
<1> HIDE DEF T
<1>7. \A n \in Nat : n \in T
  BY <1>5, <1>6, AllNumbers
<1> QED BY <1>7 DEF T, f, P, S

\* A clock does not stop itself.
LEMMA HaltKept ==
  ASSUME NEW g \in Regs
  PROVE  \A n \in Nat : seconds_from(g)[n] \in Regs /\ seconds_from(g)[n].halt = g.halt
<1> DEFINE f == seconds_from(g)
           T == {n \in Nat : f[n].halt = g.halt}
<1>1. /\ f \in [Nat -> Regs] /\ f[0] = g
      /\ \A n \in Nat : f[n + 1] = tick_second(f[n])
  BY Counting
<1> HIDE DEF f
<1>2. \A n \in Nat : f[n] \in Regs
  BY <1>1
<1>3. 0 \in T
  BY <1>1
<1>4. ASSUME NEW n \in Nat, n \in T PROVE n + 1 \in T
  <2>1. tick_second(f[n]).halt = f[n].halt
    BY <1>2, SecondTyped
  <2> QED BY <1>1, <1>4, <2>1
<1> HIDE DEF T
<1>5. \A n \in Nat : n \in T
  BY <1>3, <1>4, AllNumbers
<1> QED BY <1>2, <1>5 DEF T, f

-----------------------------------------------------------------------------
(* A call of tick_cycles. *)

\* The fields of a clock.
LEMMA ClockFields ==
  ASSUME NEW r \in RtcState
  PROVE  /\ r = [regs |-> r.regs, latched |-> r.latched, subsec |-> r.subsec,
                 latch_prev |-> r.latch_prev]
         /\ r.regs \in Regs /\ r.latched \in Regs /\ r.subsec \in Nat
         /\ r.subsec < CyclesPerSecond /\ r.latch_prev \in Latches
         /\ r.regs.halt \in BOOLEAN
<1>1. /\ r.regs \in Regs /\ r.latched \in Regs /\ r.subsec \in 0..CyclesPerSecond - 1
      /\ r.latch_prev \in Latches
      /\ r = [regs |-> r.regs, latched |-> r.latched, subsec |-> r.subsec,
              latch_prev |-> r.latch_prev]
  BY DEF RtcState
<1> DEFINE z == r.subsec
<1>2. z \in 0..CyclesPerSecond - 1
  BY <1>1
<1> HIDE DEF z
<1>3. z \in Nat /\ z < CyclesPerSecond
  BY <1>2, Widths
<1>4. r.regs.halt \in BOOLEAN
  BY <1>1, RegFields
<1> QED BY <1>1, <1>3, <1>4 DEF z

\* The whole seconds go into the registers, the rest is kept.
LEMMA Running ==
  ASSUME NEW r \in RtcState, ~r.regs.halt, NEW t \in Nat
  PROVE  LET n == tick_cycles(r, t)
             x == r.subsec + t
         IN  /\ x \in Nat /\ x \div CyclesPerSecond \in Nat
             /\ x % CyclesPerSecond \in 0..CyclesPerSecond - 1
             /\ x = CyclesPerSecond * (x \div CyclesPerSecond) + (x % CyclesPerSecond)
             /\ n = [regs |-> seconds_from(r.regs)[x \div CyclesPerSecond],
                     latched |-> r.latched, subsec |-> x % CyclesPerSecond,
                     latch_prev |-> r.latch_prev]
             /\ n \in RtcState /\ ~n.regs.halt
<1> DEFINE x == r.subsec + t
           q == x \div CyclesPerSecond
           z == x % CyclesPerSecond
           f == seconds_from(r.regs)
           n == tick_cycles(r, t)
<1>1. x \in Nat
  BY ClockFields
<1>2. n = [r EXCEPT !.subsec = z, !.regs = f[q]]
  BY DEF tick_cycles
<1>3. q \in Nat /\ z \in 0..CyclesPerSecond - 1 /\ x = CyclesPerSecond * q + z
  <2> HIDE DEF x
  <2> QED BY <1>1, Widths, Rest
<1>4. f[q] \in Regs /\ ~f[q].halt
  <2> HIDE DEF q, f
  <2>1. f[q] \in Regs /\ f[q].halt = r.regs.halt
    BY <1>3, ClockFields, HaltKept DEF f
  <2> QED BY <2>1
<1> HIDE DEF z, q, n, x, f
<1>5. n = [regs |-> f[q], latched |-> r.latched, subsec |-> z, latch_prev |-> r.latch_prev]
  BY <1>2 DEF RtcState
<1>6. n \in RtcState /\ ~n.regs.halt
  BY <1>3, <1>4, <1>5, ClockFields DEF RtcState
<1> QED BY <1>1, <1>3, <1>5, <1>6 DEF z, q, n, x, f

\* The clock stays in its ranges.
LEMMA ClockTyped ==
  ASSUME NEW r \in RtcState, NEW t \in Nat
  PROVE  tick_cycles(r, t) \in RtcState
<1>1. CASE r.regs.halt
  BY <1>1 DEF tick_cycles
<1>2. CASE ~r.regs.halt
  BY <1>2, Running
<1> QED BY <1>1, <1>2

\* Two calls are one call of both their times.
LEMMA Sliced ==
  ASSUME NEW r \in RtcState, NEW a \in Nat, NEW b \in Nat
  PROVE  tick_cycles(tick_cycles(r, a), b) = tick_cycles(r, a + b)
<1>1. CASE r.regs.halt
  BY <1>1 DEF tick_cycles
<1>2. CASE ~r.regs.halt
  <2> DEFINE C == CyclesPerSecond
             f == seconds_from(r.regs)
             n == tick_cycles(r, a)
             x == r.subsec + a
             q == x \div C
             z == x % C
             y == z + b
             p == y \div C
             w == y % C
             u == r.subsec + (a + b)
  <2>1. /\ x \in Nat /\ q \in Nat /\ z \in 0..C - 1 /\ x = C * q + z
        /\ n = [regs |-> f[q], latched |-> r.latched, subsec |-> z,
                latch_prev |-> r.latch_prev]
        /\ n \in RtcState /\ ~n.regs.halt
    BY <1>2, Running
  <2>2. r.subsec \in Nat /\ C \in Nat \ {0} /\ r.regs \in Regs
    BY ClockFields, Widths
  <2> HIDE DEF n
  <2>3. n.subsec = z /\ n.regs = f[q] /\ n.latched = r.latched /\ n.latch_prev = r.latch_prev
    BY <2>1
  <2>4. LET v == n.subsec + b
        IN  /\ v \in Nat /\ v \div C \in Nat /\ v % C \in 0..C - 1
            /\ v = C * (v \div C) + (v % C)
            /\ tick_cycles(n, b) = [regs |-> seconds_from(n.regs)[v \div C],
                                    latched |-> n.latched, subsec |-> v % C,
                                    latch_prev |-> n.latch_prev]
    BY <2>1, Running
  <2>5. /\ y \in Nat /\ p \in Nat /\ w \in 0..C - 1 /\ y = C * p + w
        /\ tick_cycles(n, b) = [regs |-> seconds_from(f[q])[p], latched |-> r.latched,
                                subsec |-> w, latch_prev |-> r.latch_prev]
    BY <2>3, <2>4
  <2>6. tick_cycles(r, a + b) = [regs |-> f[u \div C], latched |-> r.latched,
                                 subsec |-> u % C, latch_prev |-> r.latch_prev]
    <3>1. a + b \in Nat
      OBVIOUS
    <3> QED BY <1>2, <3>1, Running
  <2> DEFINE k == r.subsec
  <2>7. x = k + a /\ u = k + (a + b) /\ y = z + b /\ k \in Nat
    BY <2>2
  <2> HIDE DEF x, z, p, w, q, y, u, k, C
  <2>8. u = C * (q + p) + w /\ w \in Nat /\ w < C /\ q + p \in Nat /\ u \in Nat
    <3>1. C * (q + p) = C * q + C * p
      BY <2>1, <2>2, <2>5
    <3>2. u = x + b /\ u \in Nat
      BY <2>1, <2>7
    <3>3. z \in Nat /\ w \in Nat /\ w < C
      BY <2>1, <2>2, <2>5
    <3>4. C * q \in Nat /\ C * p \in Nat
      BY <2>1, <2>2, <2>5
    <3> QED BY <2>1, <2>5, <2>7, <3>1, <3>2, <3>3, <3>4
  <2>9. u \div C = q + p /\ u % C = w
    BY <2>2, <2>8, Quotient
  <2>10. seconds_from(f[q])[p] = f[q + p]
    BY <2>1, <2>2, <2>5, CountingOn
  <2> QED BY <2>5, <2>6, <2>9, <2>10 DEF n
<1> QED BY <1>1, <1>2

\* A clock in range that runs counts cycles, and keeps the carry of the period.
LEMMA CyclesUp ==
  ASSUME NEW r \in RtcState, InRange(r.regs), ~r.regs.halt, NEW t \in Nat
  PROVE  LET n == tick_cycles(r, t)
         IN  /\ Cycle(n) = ((Cycle(r) + t) % Period)
             /\ InRange(n.regs)
             /\ n.regs.carry = (r.regs.carry \/ Cycle(r) + t >= Period)
<1> DEFINE C == CyclesPerSecond
           P == PeriodSeconds
           f == seconds_from(r.regs)
           n == tick_cycles(r, t)
           k == r.subsec
           x == k + t
           q == x \div C
           z == x % C
           S == Second(r.regs)
           o == f[q]
           v == (S + q) % P
           d == (S + q) \div P
<1>1. /\ x \in Nat /\ q \in Nat /\ z \in 0..C - 1 /\ x = C * q + z
      /\ n = [regs |-> f[q], latched |-> r.latched, subsec |-> z, latch_prev |-> r.latch_prev]
      /\ n \in RtcState
  BY Running
<1>2. Counter(r.regs)
  BY ClockFields DEF Counter
<1>3. /\ Counter(o) /\ Second(o) = v /\ o.carry = (r.regs.carry \/ S + q >= P)
  BY <1>1, <1>2, SecondsUp
<1>4. S \in Nat /\ P \in Nat \ {0} /\ C \in Nat \ {0} /\ k \in Nat /\ x = k + t
  BY <1>2, TimeBelow, Widths, ClockFields
<1>5. Cycle(r) = S * C + k
  BY DEF Cycle
<1>6. Period = P * C
  BY DEF Period, PeriodSeconds
<1> HIDE DEF n, o
<1>7. n.regs = o /\ n.subsec = z
  BY <1>1 DEF o
<1>8. Cycle(n) = v * C + z
  BY <1>3, <1>7 DEF Cycle
<1> HIDE DEF x, q, z, k, S, P, C
<1>9. v \in 0..P - 1 /\ d \in Nat /\ S + q = P * d + v /\ S + q \in Nat
  <2> DEFINE m == S + q
  <2>1. m \in Nat
    BY <1>1, <1>4
  <2>2. m % P \in 0..P - 1 /\ m \div P \in Nat /\ m = P * (m \div P) + (m % P)
    <3> HIDE DEF m
    <3> QED BY <1>4, <2>1, Rest
  <2> QED BY <2>1, <2>2
<1> HIDE DEF v, d
<1> DEFINE c == S * C + k
<1>10. c + t = (S + q) * C + z /\ c + t \in Nat /\ z \in Nat /\ z < C
  <2>1. (S + q) * C = S * C + C * q /\ S * C \in Nat
    BY <1>1, <1>4
  <2>2. z \in Nat /\ z < C
    BY <1>1, <1>4
  <2>3. C * q \in Nat
    BY <1>1, <1>4
  <2> QED BY <1>1, <1>4, <2>1, <2>2, <2>3
<1>11. c + t = (P * C) * d + (v * C + z)
  <2>1. (P * d + v) * C = (P * C) * d + v * C
    BY <1>4, <1>9
  <2>2. (P * C) * d \in Nat /\ v * C \in Nat
    BY <1>4, <1>9
  <2> QED BY <1>9, <1>10, <2>1, <2>2
<1>12. v * C + z \in Nat /\ v * C + z < P * C /\ P * C \in Nat \ {0}
  <2>1. v \in Nat /\ v < P /\ P \in Nat
    BY <1>4, <1>9
  <2>2. v * C + z \in Nat /\ v * C + z < P * C /\ P * C \in Nat
    BY <1>4, <1>10, <2>1, Digit
  <2> QED BY <2>2
<1>13. (c + t) % (P * C) = v * C + z
  <2> DEFINE A == P * C
             B == v * C + z
             D == c + t
  <2>1. D \in Nat /\ A \in Nat \ {0} /\ B \in Nat /\ B < A /\ D = A * d + B /\ d \in Nat
    BY <1>9, <1>10, <1>11, <1>12
  <2> HIDE DEF A, B, D
  <2>2. D % A = B
    BY <2>1, Quotient
  <2> QED BY <2>2 DEF A, B, D
<1>14. (S + q >= P) <=> (c + t >= P * C)
  <2> DEFINE m == S + q
  <2>1. m \in Nat /\ c + t = m * C + z
    BY <1>9, <1>10
  <2> HIDE DEF c, m
  <2>2. CASE m < P
    <3>1. m * C + z < P * C
      BY <1>4, <1>10, <2>1, <2>2, Digit
    <3>2. ~(m >= P)
      BY <1>4, <2>1, <2>2
    <3>3. ~(c + t >= P * C)
      <4> DEFINE A == P * C
                 B == m * C + z
                 D == c + t
      <4>1. D = B /\ B < A /\ A \in Nat /\ D \in Nat
        BY <1>10, <1>12, <2>1, <3>1
      <4> HIDE DEF A, B, D
      <4>2. ~(D >= A)
        BY <4>1
      <4> QED BY <4>2 DEF A, B, D
    <3> QED BY <3>2, <3>3 DEF m
  <2>3. CASE m >= P
    <3>1. PICK e \in Nat : m = P + e
      <4>1. m - P \in Nat /\ m = P + (m - P)
        BY <1>4, <2>1, <2>3
      <4> QED BY <4>1
    <3>2. m * C = P * C + e * C /\ e * C \in Nat /\ P * C \in Nat
      BY <1>4, <3>1
    <3>3. m * C + z >= P * C
      BY <1>10, <3>2
    <3> QED BY <2>1, <2>3, <3>3 DEF m
  <2>4. m < P \/ m >= P
    BY <1>4, <2>1
  <2> QED BY <2>2, <2>3, <2>4
<1>15. Cycle(n) = ((Cycle(r) + t) % Period)
  BY <1>5, <1>6, <1>8, <1>13
<1>16. InRange(n.regs)
  BY <1>3, <1>7 DEF Counter
<1>17. n.regs.carry = (r.regs.carry \/ Cycle(r) + t >= Period)
  BY <1>3, <1>5, <1>6, <1>7, <1>14
<1> QED BY <1>15, <1>16, <1>17 DEF n

-----------------------------------------------------------------------------
(* The flash chip keeps its ranges. *)

\* The chip of TypeOK.
FlashOK(f) ==
  /\ f \in Flash
  /\ f.busy > 0 => f.mode = "Status" /\ f.seq = 0
  /\ f.mode \notin Programming => f = page_reset(f)
  /\ f.mode \in Programming => f.seq = 0 /\ f.prefix = 0
  /\ (f.page = NoPage) = (f.loaded = 0)

Ones == [o \in 0..PageLen - 1 |-> 1]
NoLoad(f) == f.buf = Ones /\ f.page = NoPage /\ f.loaded = 0

\* A chip is its fields.
LEMMA ChipFields ==
  ASSUME NEW f \in Flash
  PROVE  /\ f = [data |-> f.data, hidden |-> f.hidden, mode |-> f.mode, seq |-> f.seq,
                 prefix |-> f.prefix, protect |-> f.protect, buf |-> f.buf,
                 page |-> f.page, loaded |-> f.loaded, busy |-> f.busy]
         /\ f.data \in [Addr -> Bit] /\ f.hidden \in [0..HiddenSize - 1 -> Bit]
         /\ f.mode \in Modes /\ f.seq \in 0..2
         /\ f.prefix \in {0, Byte.erase, Byte.extended, Byte.hidden}
         /\ f.protect \in BOOLEAN /\ f.buf \in [0..PageLen - 1 -> Bit]
         /\ f.page \in Addr \union {NoPage} /\ f.loaded \in 0..PageLen /\ f.busy \in Nat
BY DEF Flash

\* The ranges of the pages.
LEMMA Pages ==
  /\ PageLen \in Nat \ {0} /\ HiddenSize \in Nat \ {0} /\ Ones \in [0..PageLen - 1 -> Bit]
  /\ 0 \in 0..PageLen /\ HiddenSize <= FlashSize /\ FlashSize \in Nat
  /\ \A a \in Addr : a \in Nat /\ page_of(a) \in Addr /\ page_of(a) # NoPage
                     /\ offset_of(a) \in 0..PageLen - 1 /\ (a % HiddenSize) \in Addr
<1>1. PageLen \in Nat \ {0} /\ FlashSize \in Nat /\ HiddenSize = 2 * PageLen
      /\ HiddenSize <= FlashSize
  BY FlashAssumption DEF HiddenSize
<1>2. HiddenSize \in Nat \ {0} /\ 0 \in 0..PageLen
  BY <1>1
<1>3. Ones \in [0..PageLen - 1 -> Bit]
  BY DEF Ones, Bit
<1>4. ASSUME NEW a \in Addr
      PROVE  a \in Nat /\ page_of(a) \in Addr /\ page_of(a) # NoPage
             /\ offset_of(a) \in 0..PageLen - 1 /\ (a % HiddenSize) \in Addr
  <2> DEFINE x == a % PageLen
             q == a \div PageLen
             y == a % HiddenSize
             H == HiddenSize
  <2>1. a \in Nat /\ a < FlashSize
    BY <1>1 DEF Addr
  <2>2. x \in 0..PageLen - 1 /\ q \in Nat /\ a = PageLen * q + x
    BY <1>1, <2>1, Rest
  <2> HIDE DEF H
  <2>3. y \in 0..H - 1
    <3>1. H \in Nat \ {0}
      BY <1>2 DEF H
    <3>2. a % H \in 0..H - 1
      BY <2>1, <3>1, Rest
    <3> QED BY <3>2 DEF H
  <2> HIDE DEF x, q, y
  <2>4. PageLen * q \in Nat
    BY <1>1, <2>2
  <2>5. a - x \in Nat /\ a - x < FlashSize /\ a - x # -1
    BY <1>1, <2>1, <2>2, <2>4
  <2>6. y \in Nat /\ y < FlashSize
    <3>1. H \in Nat /\ H <= FlashSize
      BY <1>1, <1>2 DEF H
    <3> QED BY <1>1, <2>3, <3>1
  <2>7. a - x \in Addr /\ y \in Addr
    BY <1>1, <2>5, <2>6 DEF Addr
  <2> QED BY <2>1, <2>2, <2>5, <2>7 DEF page_of, offset_of, NoPage, x, y
<1> QED BY <1>1, <1>2, <1>3, <1>4

\* What an empty page buffer is.
LEMMA Empty ==
  ASSUME NEW f \in Flash
  PROVE  /\ page_reset(f) = [data |-> f.data, hidden |-> f.hidden, mode |-> f.mode,
                             seq |-> f.seq, prefix |-> f.prefix, protect |-> f.protect,
                             buf |-> Ones, page |-> NoPage, loaded |-> 0, busy |-> f.busy]
         /\ page_reset(f) \in Flash
         /\ NoLoad(f) <=> f = page_reset(f)
<1> DEFINE n == page_reset(f)
           z == NoPage
<1>1. n = [f EXCEPT !.buf = Ones, !.page = z, !.loaded = 0]
  BY DEF page_reset, Ones
<1> HIDE DEF n, z
<1>2. n = [data |-> f.data, hidden |-> f.hidden, mode |-> f.mode,
           seq |-> f.seq, prefix |-> f.prefix, protect |-> f.protect,
           buf |-> Ones, page |-> z, loaded |-> 0, busy |-> f.busy]
  BY <1>1 DEF Flash
<1>3. z \in Addr \union {NoPage}
  BY DEF z
<1>4. n \in Flash
  BY <1>2, <1>3, ChipFields, Pages DEF Flash
<1>5. NoLoad(f) => f = n
  BY <1>2, ChipFields DEF NoLoad, z
<1>6. f = n => NoLoad(f)
  <2>1. n.buf = Ones /\ n.page = z /\ n.loaded = 0
    BY <1>2
  <2> QED BY <2>1 DEF NoLoad, z
<1> QED BY <1>2, <1>4, <1>5, <1>6 DEF n, z

-----------------------------------------------------------------------------
(* The commands of the chip keep TypeOK. *)

\* A chip with no page in hand that is in range.
LEMMA Unloaded ==
  ASSUME NEW g \in Flash, NoLoad(g),
         NEW d \in [Addr -> Bit], NEW e \in [0..HiddenSize - 1 -> Bit], NEW m \in Modes,
         NEW s \in 0..2, NEW p \in {0, Byte.erase, Byte.extended, Byte.hidden},
         NEW t \in BOOLEAN, NEW y \in Nat,
         y > 0 => m = "Status" /\ s = 0, m \in Programming => s = 0 /\ p = 0
  PROVE  FlashOK([data |-> d, hidden |-> e, mode |-> m, seq |-> s, prefix |-> p,
                  protect |-> t, buf |-> g.buf, page |-> g.page, loaded |-> g.loaded,
                  busy |-> y])
<1> DEFINE n == [data |-> d, hidden |-> e, mode |-> m, seq |-> s, prefix |-> p,
                 protect |-> t, buf |-> g.buf, page |-> g.page, loaded |-> g.loaded,
                 busy |-> y]
<1>1. n \in Flash
  BY ChipFields DEF Flash
<1>2. n.mode = m /\ n.seq = s /\ n.prefix = p /\ n.busy = y
  OBVIOUS
<1>3. NoLoad(n)
  BY DEF NoLoad
<1> HIDE DEF n
<1>4. n = page_reset(n)
  BY <1>1, <1>3, Empty
<1>5. (n.page = NoPage) = (n.loaded = 0)
  BY <1>3 DEF NoLoad
<1>6. FlashOK(n)
  BY <1>1, <1>2, <1>4, <1>5 DEF FlashOK
<1> QED BY <1>6 DEF n

\* A chip outside of a page load has no page in hand.
LEMMA Outside ==
  ASSUME NEW f, FlashOK(f), f.mode \notin Programming
  PROVE  f \in Flash /\ NoLoad(f) /\ page_reset(f) = f
<1>1. f \in Flash /\ f = page_reset(f)
  BY DEF FlashOK
<1> QED BY <1>1, Empty

\* The ends of an operation.
LEMMA Ends ==
  ASSUME NEW f \in Flash, NEW c \in Nat
  PROVE  /\ started(f, c) = [data |-> f.data, hidden |-> f.hidden, mode |-> "Status",
                             seq |-> f.seq, prefix |-> f.prefix, protect |-> f.protect,
                             buf |-> f.buf, page |-> f.page, loaded |-> f.loaded, busy |-> c]
         /\ blocked(f) = [data |-> f.data, hidden |-> f.hidden, mode |-> "Read",
                          seq |-> f.seq, prefix |-> f.prefix, protect |-> f.protect,
                          buf |-> f.buf, page |-> f.page, loaded |-> f.loaded,
                          busy |-> f.busy]
<1> DEFINE n == started(f, c)
           k == blocked(f)
<1>1. n = [f EXCEPT !.busy = c, !.mode = "Status"] /\ k = [f EXCEPT !.mode = "Read"]
  BY DEF started, blocked
<1> HIDE DEF n, k
<1>2. n = [data |-> f.data, hidden |-> f.hidden, mode |-> "Status",
           seq |-> f.seq, prefix |-> f.prefix, protect |-> f.protect,
           buf |-> f.buf, page |-> f.page, loaded |-> f.loaded, busy |-> c]
  BY <1>1 DEF Flash
<1>3. k = [data |-> f.data, hidden |-> f.hidden, mode |-> "Read",
           seq |-> f.seq, prefix |-> f.prefix, protect |-> f.protect,
           buf |-> f.buf, page |-> f.page, loaded |-> f.loaded, busy |-> f.busy]
  BY <1>1 DEF Flash
<1> QED BY <1>2, <1>3 DEF n, k

\* The times of the operations.
LEMMA Times == ProgramCycles \in Nat /\ EraseCycles \in Nat /\ ChipEraseCycles \in Nat
BY FlashAssumption

\* The modes.
LEMMA ModeNames ==
  /\ {"Read", "Id", "HiddenRead", "Status", "Program", "ProgramHidden"} = Modes
  /\ {"Program", "ProgramHidden"} = Programming
  /\ {"Read", "Id", "HiddenRead", "Status"} \intersect Programming = {}
BY DEF Modes, Programming

\* A chip between commands.
Between(g) == FlashOK(g) /\ g.busy = 0 /\ g.mode \notin Programming /\ g.seq = 0 /\ g.prefix = 0

\* An erase leaves ones.
LEMMA EraseTyped ==
  ASSUME NEW g, Between(g), NEW sectors, NEW we \in BOOLEAN, NEW c \in Nat
  PROVE  FlashOK(started(erased(g, sectors, we), c))
<1> DEFINE d == [a \in Addr |->
                   IF sector_of(a) \in sectors /\ erasable(g, sector_of(a), we)
                   THEN 1 ELSE g.data[a]]
           n == erased(g, sectors, we)
<1>1. g \in Flash /\ NoLoad(g)
  BY Outside DEF Between
<1>2. d \in [Addr -> Bit]
  <2>1. g.data \in [Addr -> Bit]
    BY <1>1, ChipFields
  <2> QED BY <2>1 DEF Bit
<1>3. n = [g EXCEPT !.data = d]
  BY DEF erased
<1> HIDE DEF d, n
<1>4. n = [data |-> d, hidden |-> g.hidden, mode |-> g.mode, seq |-> g.seq,
           prefix |-> g.prefix, protect |-> g.protect, buf |-> g.buf, page |-> g.page,
           loaded |-> g.loaded, busy |-> g.busy]
  BY <1>1, <1>3 DEF Flash
<1>5. n \in Flash
  BY <1>1, <1>2, <1>4, ChipFields DEF Flash
<1>6. started(n, c) = [data |-> d, hidden |-> g.hidden, mode |-> "Status", seq |-> g.seq,
                       prefix |-> g.prefix, protect |-> g.protect, buf |-> g.buf,
                       page |-> g.page, loaded |-> g.loaded, busy |-> c]
  BY <1>4, <1>5, Ends
<1>7. g.seq = 0 /\ g.prefix = 0
  BY DEF Between
<1>8. FlashOK(started(n, c))
  BY <1>1, <1>2, <1>6, <1>7, ChipFields, ModeNames, Unloaded, SMTT(60)
<1> QED BY <1>8 DEF n

\* An operation that does not start.
LEMMA BlockedTyped ==
  ASSUME NEW g, Between(g)
  PROVE  FlashOK(blocked(g))
<1>1. g \in Flash /\ NoLoad(g)
  BY Outside DEF Between
<1>2. blocked(g) = [data |-> g.data, hidden |-> g.hidden, mode |-> "Read", seq |-> g.seq,
                    prefix |-> g.prefix, protect |-> g.protect, buf |-> g.buf,
                    page |-> g.page, loaded |-> g.loaded, busy |-> g.busy]
  BY <1>1, Ends
<1>3. g.seq = 0 /\ g.prefix = 0 /\ g.busy = 0
  BY DEF Between
<1> QED BY <1>1, <1>2, <1>3, ChipFields, ModeNames, Unloaded, SMTT(60)

\* Another mode or prefix.
LEMMA TurnTyped ==
  ASSUME NEW g, Between(g), NEW m \in Modes,
         NEW p \in {0, Byte.erase, Byte.extended, Byte.hidden}
  PROVE  FlashOK([g EXCEPT !.mode = m]) /\ FlashOK([g EXCEPT !.prefix = p])
<1> DEFINE n == [g EXCEPT !.mode = m]
           k == [g EXCEPT !.prefix = p]
<1>1. g \in Flash /\ NoLoad(g)
  BY Outside DEF Between
<1>2. n = [g EXCEPT !.mode = m] /\ k = [g EXCEPT !.prefix = p]
  OBVIOUS
<1> HIDE DEF n, k
<1>3. n = [data |-> g.data, hidden |-> g.hidden, mode |-> m, seq |-> g.seq,
           prefix |-> g.prefix, protect |-> g.protect, buf |-> g.buf, page |-> g.page,
           loaded |-> g.loaded, busy |-> g.busy]
  BY <1>1, <1>2 DEF Flash
<1>4. k = [data |-> g.data, hidden |-> g.hidden, mode |-> g.mode, seq |-> g.seq,
           prefix |-> p, protect |-> g.protect, buf |-> g.buf, page |-> g.page,
           loaded |-> g.loaded, busy |-> g.busy]
  BY <1>1, <1>2 DEF Flash
<1>5. g.seq = 0 /\ g.prefix = 0 /\ g.busy = 0 /\ g.mode \notin Programming
  BY DEF Between
<1>6. FlashOK(n)
  BY <1>1, <1>3, <1>5, ChipFields, Unloaded, SMTT(60)
<1>7. FlashOK(k)
  BY <1>1, <1>4, <1>5, ChipFields, Unloaded, SMTT(60)
<1> QED BY <1>6, <1>7 DEF n, k

\* The commands of the extended set.
LEMMA ExtendedTyped ==
  ASSUME NEW g, Between(g), NEW we \in BOOLEAN,
         NEW value \in {Byte.eraseHidden, Byte.programHidden, Byte.unprotect, Byte.protect}
  PROVE  FlashOK(extended(g, value, we))
<1>1. g \in Flash /\ NoLoad(g) /\ page_reset(g) = g /\ g.seq = 0 /\ g.prefix = 0
  BY Outside DEF Between
<1>2. CASE ~we
  BY <1>2, BlockedTyped DEF extended
<1>3. CASE we /\ value = Byte.eraseHidden
  <2> DEFINE e == [a \in DOMAIN g.hidden |-> 1]
             n == [g EXCEPT !.hidden = e]
  <2>1. e \in [0..HiddenSize - 1 -> Bit]
    <3>1. DOMAIN g.hidden = 0..HiddenSize - 1
      BY <1>1, ChipFields
    <3> QED BY <3>1 DEF Bit
  <2>2. n = [g EXCEPT !.hidden = e]
    OBVIOUS
  <2>3. extended(g, value, we) = started(n, EraseCycles)
    <3>1. value # Byte.programHidden /\ value \notin {Byte.protect, Byte.unprotect}
      BY <1>3 DEF Byte
    <3> HIDE DEF e
    <3>2. extended(g, value, we) =
            CASE ~we -> blocked(g)
              [] we /\ value = Byte.eraseHidden -> started(n, EraseCycles)
              [] we /\ value = Byte.programHidden ->
                   [page_reset(g) EXCEPT !.mode = "ProgramHidden"]
              [] we /\ value \in {Byte.protect, Byte.unprotect} ->
                   started([g EXCEPT !.protect = (value = Byte.protect)], ProgramCycles)
      BY DEF extended, e
    <3> HIDE DEF n
    <3> QED BY <1>3, <3>1, <3>2
  <2> HIDE DEF e, n
  <2>4. n = [data |-> g.data, hidden |-> e, mode |-> g.mode, seq |-> g.seq,
             prefix |-> g.prefix, protect |-> g.protect, buf |-> g.buf, page |-> g.page,
             loaded |-> g.loaded, busy |-> g.busy]
    BY <1>1, <2>2 DEF Flash
  <2>5. n \in Flash
    BY <1>1, <2>1, <2>4, ChipFields DEF Flash
  <2>6. started(n, EraseCycles) =
          [data |-> g.data, hidden |-> e, mode |-> "Status", seq |-> g.seq,
           prefix |-> g.prefix, protect |-> g.protect, buf |-> g.buf, page |-> g.page,
           loaded |-> g.loaded, busy |-> EraseCycles]
    BY <2>4, <2>5, Times, Ends
  <2>7. FlashOK([data |-> g.data, hidden |-> e, mode |-> "Status", seq |-> g.seq,
                 prefix |-> g.prefix, protect |-> g.protect, buf |-> g.buf,
                 page |-> g.page, loaded |-> g.loaded, busy |-> EraseCycles])
    BY <1>1, <2>1, Times, ChipFields, ModeNames, Unloaded, SMTT(60)
  <2> QED BY <2>3, <2>6, <2>7
<1>4. CASE we /\ value = Byte.programHidden
  <2>1. extended(g, value, we) = [g EXCEPT !.mode = "ProgramHidden"]
    BY <1>1, <1>4 DEF extended, Byte
  <2>2. FlashOK([g EXCEPT !.mode = "ProgramHidden"])
    BY TurnTyped, ModeNames
  <2> QED BY <2>1, <2>2
<1>5. CASE we /\ value \in {Byte.unprotect, Byte.protect}
  <2> DEFINE t == value = Byte.protect
             n == [g EXCEPT !.protect = t]
  <2>1. t \in BOOLEAN
    OBVIOUS
  <2>2. n = [g EXCEPT !.protect = t]
    OBVIOUS
  <2>3. extended(g, value, we) = started(n, ProgramCycles)
    BY <1>5 DEF extended, Byte
  <2> HIDE DEF t, n
  <2>4. n = [data |-> g.data, hidden |-> g.hidden, mode |-> g.mode, seq |-> g.seq,
             prefix |-> g.prefix, protect |-> t, buf |-> g.buf, page |-> g.page,
             loaded |-> g.loaded, busy |-> g.busy]
    BY <1>1, <2>2 DEF Flash
  <2>5. n \in Flash
    BY <1>1, <2>1, <2>4, ChipFields DEF Flash
  <2>6. started(n, ProgramCycles) =
          [data |-> g.data, hidden |-> g.hidden, mode |-> "Status", seq |-> g.seq,
           prefix |-> g.prefix, protect |-> t, buf |-> g.buf, page |-> g.page,
           loaded |-> g.loaded, busy |-> ProgramCycles]
    BY <2>4, <2>5, Times, Ends
  <2> QED BY <1>1, <2>1, <2>3, <2>6, Times, ChipFields, ModeNames, Unloaded, SMTT(60)
<1> QED BY <1>2, <1>3, <1>4, <1>5

-----------------------------------------------------------------------------
(* The writes of the chip keep TypeOK. *)

\* Every byte of a command is a number.
LEMMA ByteNumbers ==
  ASSUME NEW value \in Values
  PROVE  value \in Nat /\ (value % 2) \in Bit
<1>1. value \in Nat
  BY DEF Values, Byte
<1>2. (value % 2) \in {0, 1}
  BY <1>1
<1> QED BY <1>1, <1>2 DEF Bit

\* Another place in the unlock.
LEMMA UnlockTyped ==
  ASSUME NEW f, FlashOK(f), f.busy = 0, f.mode \notin Programming, NEW s \in 0..2
  PROVE  /\ FlashOK([f EXCEPT !.seq = s])
         /\ Between([f EXCEPT !.seq = 0, !.prefix = 0])
         /\ FlashOK([f EXCEPT !.mode = "Read", !.seq = 0, !.prefix = 0])
         /\ [f EXCEPT !.seq = 0] \in Flash /\ [f EXCEPT !.seq = 0].prefix = f.prefix
         /\ [[f EXCEPT !.seq = 0] EXCEPT !.prefix = 0] = [f EXCEPT !.seq = 0, !.prefix = 0]
<1> DEFINE n == [f EXCEPT !.seq = s]
           k == [f EXCEPT !.seq = 0, !.prefix = 0]
           o == [f EXCEPT !.mode = "Read", !.seq = 0, !.prefix = 0]
           z == [f EXCEPT !.seq = 0]
           w == [z EXCEPT !.prefix = 0]
<1>1. f \in Flash /\ NoLoad(f)
  BY Outside
<1>2. n = [f EXCEPT !.seq = s] /\ k = [f EXCEPT !.seq = 0, !.prefix = 0]
      /\ o = [f EXCEPT !.mode = "Read", !.seq = 0, !.prefix = 0]
      /\ z = [f EXCEPT !.seq = 0] /\ w = [z EXCEPT !.prefix = 0]
  OBVIOUS
<1> HIDE DEF n, k, o, z, w
<1>3. n = [data |-> f.data, hidden |-> f.hidden, mode |-> f.mode, seq |-> s,
           prefix |-> f.prefix, protect |-> f.protect, buf |-> f.buf, page |-> f.page,
           loaded |-> f.loaded, busy |-> f.busy]
  BY <1>1, <1>2 DEF Flash
<1>4. k = [data |-> f.data, hidden |-> f.hidden, mode |-> f.mode, seq |-> 0,
           prefix |-> 0, protect |-> f.protect, buf |-> f.buf, page |-> f.page,
           loaded |-> f.loaded, busy |-> f.busy]
  BY <1>1, <1>2 DEF Flash
<1>5. o = [data |-> f.data, hidden |-> f.hidden, mode |-> "Read", seq |-> 0,
           prefix |-> 0, protect |-> f.protect, buf |-> f.buf, page |-> f.page,
           loaded |-> f.loaded, busy |-> f.busy]
  BY <1>1, <1>2 DEF Flash
<1>6. z = [data |-> f.data, hidden |-> f.hidden, mode |-> f.mode, seq |-> 0,
           prefix |-> f.prefix, protect |-> f.protect, buf |-> f.buf, page |-> f.page,
           loaded |-> f.loaded, busy |-> f.busy]
  BY <1>1, <1>2 DEF Flash
<1>7. z \in Flash
  <2>1. 0 \in 0..2
    OBVIOUS
  <2> QED BY <1>1, <1>6, <2>1, ChipFields DEF Flash
<1>8. w = k
  BY <1>2, <1>4, <1>6
<1>9. FlashOK(n)
  BY <1>1, <1>3, ChipFields, Unloaded, SMTT(60)
<1>10. FlashOK(k)
  BY <1>1, <1>4, ChipFields, Unloaded, SMTT(60)
<1>11. k.busy = 0 /\ k.mode = f.mode /\ k.seq = 0 /\ k.prefix = 0
  BY <1>4
<1>12. Between(k)
  BY <1>10, <1>11 DEF Between
<1>13. FlashOK(o)
  BY <1>1, <1>5, ChipFields, ModeNames, Unloaded, SMTT(60)
<1> QED BY <1>6, <1>7, <1>8, <1>9, <1>12, <1>13 DEF n, k, o, z, w

\* The command byte.
LEMMA DispatchTyped ==
  ASSUME NEW f \in Flash, NEW addr, NEW value, NEW we \in BOOLEAN,
         Between([f EXCEPT !.prefix = 0])
  PROVE  FlashOK(dispatch(f, addr, value, we))
<1> DEFINE g == [f EXCEPT !.prefix = 0]
           n == dispatch(f, addr, value, we)
           at(p, v) == f.prefix = p /\ value = v /\ addr = Unlock1
<1>1. n = CASE addr = Unlock1 /\ f.prefix = 0
                 /\ value \in {Byte.erase, Byte.extended, Byte.hidden} ->
                   [g EXCEPT !.prefix = value]
            [] at(0, Byte.id) -> [g EXCEPT !.mode = "Id"]
            [] at(0, Byte.program) -> [page_reset(g) EXCEPT !.mode = "Program"]
            [] f.prefix = Byte.erase /\ value = Byte.sector -> erase_sector(g, addr, we)
            [] at(Byte.erase, Byte.chip) -> erase_chip(g, we)
            [] f.prefix = Byte.extended /\ addr = Unlock1
                 /\ value \in {Byte.eraseHidden, Byte.programHidden, Byte.unprotect,
                               Byte.protect} -> extended(g, value, we)
            [] at(Byte.hidden, Byte.hidden) -> [g EXCEPT !.mode = "HiddenRead"]
            [] OTHER -> g
  BY DEF dispatch
<1> HIDE DEF g, n
<1>2. Between(g)
  BY DEF g
<1>3. page_reset(g) = g /\ FlashOK(g)
  BY <1>2, Outside DEF Between
<1>4. FlashOK(erase_sector(g, addr, we))
  BY <1>2, EraseTyped, BlockedTyped, Times DEF erase_sector
<1>5. FlashOK(erase_chip(g, we))
  BY <1>2, EraseTyped, Times DEF erase_chip
<1>6. value \in {Byte.eraseHidden, Byte.programHidden, Byte.unprotect, Byte.protect}
        => FlashOK(extended(g, value, we))
  BY <1>2, ExtendedTyped
<1>7. value \in {Byte.erase, Byte.extended, Byte.hidden} => FlashOK([g EXCEPT !.prefix = value])
  BY <1>2, TurnTyped, ModeNames
<1>8. /\ FlashOK([g EXCEPT !.mode = "Id"]) /\ FlashOK([g EXCEPT !.mode = "HiddenRead"])
      /\ FlashOK([page_reset(g) EXCEPT !.mode = "Program"])
  BY <1>2, <1>3, TurnTyped, ModeNames
<1>9. FlashOK(n)
  BY <1>1, <1>3, <1>4, <1>5, <1>6, <1>7, <1>8
<1> QED BY <1>9 DEF n

\* A write of the command machine.
LEMMA CommandTyped ==
  ASSUME NEW f, FlashOK(f), f.busy = 0, f.mode \notin Programming, NEW addr, NEW value,
         NEW we \in BOOLEAN
  PROVE  FlashOK(command_write(f, addr, value, we))
<1> DEFINE z == [f EXCEPT !.seq = 0]
           d == dispatch(z, addr, value, we)
           n == command_write(f, addr, value, we)
<1>1. n = CASE value = Byte.reset -> [f EXCEPT !.mode = "Read", !.seq = 0, !.prefix = 0]
            [] value # Byte.reset /\ f.seq = 0 /\ addr = Unlock1 /\ value = Byte.aa ->
                 [f EXCEPT !.seq = 1]
            [] value # Byte.reset /\ f.seq = 1 /\ addr = Unlock2 /\ value = Byte.unlock ->
                 [f EXCEPT !.seq = 2]
            [] value # Byte.reset /\ f.seq = 2 -> d
            [] OTHER -> [f EXCEPT !.seq = 0, !.prefix = 0]
  BY DEF command_write
<1>2. /\ FlashOK([f EXCEPT !.mode = "Read", !.seq = 0, !.prefix = 0])
      /\ FlashOK([f EXCEPT !.seq = 1]) /\ FlashOK([f EXCEPT !.seq = 2])
      /\ FlashOK([f EXCEPT !.seq = 0, !.prefix = 0])
  <2>1. \A s \in 0..2 : FlashOK([f EXCEPT !.seq = s])
    BY UnlockTyped
  <2>2. 0 \in 0..2 /\ 1 \in 0..2 /\ 2 \in 0..2
    OBVIOUS
  <2>3. Between([f EXCEPT !.seq = 0, !.prefix = 0])
        /\ FlashOK([f EXCEPT !.mode = "Read", !.seq = 0, !.prefix = 0])
    BY <2>2, UnlockTyped
  <2> QED BY <2>1, <2>2, <2>3 DEF Between
<1>3. z \in Flash /\ Between([z EXCEPT !.prefix = 0])
  <2>1. 0 \in 0..2
    OBVIOUS
  <2> QED BY <2>1, UnlockTyped
<1> HIDE DEF z
<1>4. FlashOK(d)
  BY <1>3, DispatchTyped
<1> HIDE DEF d, n
<1>5. FlashOK(n)
  BY <1>1, <1>2, <1>4
<1> QED BY <1>5 DEF n

\* A page that is committed.
LEMMA CommitTyped ==
  ASSUME NEW f, FlashOK(f), f.mode \in Programming, NEW we \in BOOLEAN, NEW hidden \in BOOLEAN
  PROVE  FlashOK(commit_page(f, we, hidden))
<1> DEFINE k == and_page(f, hidden)
           allowed == IF hidden THEN we ELSE f.page >= SectorSize \/ sector0_writable(f, we)
           base == f.page % HiddenSize
           e == [a \in DOMAIN f.hidden |->
                   IF page_of(a) = base THEN f.hidden[a] * f.buf[offset_of(a)]
                                        ELSE f.hidden[a]]
           d == [a \in Addr |->
                   IF page_of(a) = f.page THEN f.data[a] * f.buf[offset_of(a)] ELSE f.data[a]]
           d1 == IF hidden THEN f.data ELSE d
           e1 == IF hidden THEN e ELSE f.hidden
<1>1. f \in Flash /\ f.seq = 0 /\ f.prefix = 0 /\ f.busy = 0
  <2>1. f \in Flash /\ f.seq = 0 /\ f.prefix = 0 /\ (f.busy > 0 => f.mode = "Status")
    BY DEF FlashOK
  <2>2. f.mode # "Status" /\ f.busy \in Nat
    BY <2>1, ChipFields DEF Programming
  <2> QED BY <2>1, <2>2
<1>2. \A x, y \in Bit : x * y \in Bit
  BY DEF Bit
<1>3. d \in [Addr -> Bit]
  <2>1. ASSUME NEW a \in Addr PROVE d[a] \in Bit
    <3>1. f.data[a] \in Bit /\ f.buf[offset_of(a)] \in Bit
      BY <1>1, ChipFields, Pages
    <3> QED BY <1>2, <3>1
  <2> QED BY <2>1
<1>4. e \in [0..HiddenSize - 1 -> Bit]
  <2>1. DOMAIN f.hidden = 0..HiddenSize - 1
    BY <1>1, ChipFields
  <2>2. ASSUME NEW a \in 0..HiddenSize - 1
        PROVE  (IF page_of(a) = base THEN f.hidden[a] * f.buf[offset_of(a)]
                                     ELSE f.hidden[a]) \in Bit
    <3>1. a \in Addr
      BY Pages DEF Addr
    <3>2. f.hidden[a] \in Bit /\ f.buf[offset_of(a)] \in Bit
      BY <1>1, <3>1, ChipFields, Pages
    <3> QED BY <1>2, <3>2
  <2> QED BY <2>1, <2>2
<1>5. k = IF hidden THEN [f EXCEPT !.hidden = e] ELSE [f EXCEPT !.data = d]
  BY DEF and_page
<1>6. commit_page(f, we, hidden) =
        page_reset(IF allowed THEN started(k, ProgramCycles) ELSE blocked(f))
  BY DEF commit_page
<1> HIDE DEF d, e, k, allowed
<1>7. k = [data |-> d1, hidden |-> e1, mode |-> f.mode, seq |-> f.seq,
           prefix |-> f.prefix, protect |-> f.protect, buf |-> f.buf, page |-> f.page,
           loaded |-> f.loaded, busy |-> f.busy]
  BY <1>1, <1>5 DEF Flash
<1>8. d1 \in [Addr -> Bit] /\ e1 \in [0..HiddenSize - 1 -> Bit]
  BY <1>1, <1>3, <1>4, ChipFields
<1> HIDE DEF d1, e1
<1>9. k \in Flash
  BY <1>1, <1>7, <1>8, ChipFields DEF Flash
<1> DEFINE x == started(k, ProgramCycles)
           y == blocked(f)
<1>10. x = [data |-> d1, hidden |-> e1, mode |-> "Status", seq |-> f.seq,
            prefix |-> f.prefix, protect |-> f.protect, buf |-> f.buf, page |-> f.page,
            loaded |-> f.loaded, busy |-> ProgramCycles]
  BY <1>7, <1>9, Times, Ends
<1>11. y = [data |-> f.data, hidden |-> f.hidden, mode |-> "Read", seq |-> f.seq,
            prefix |-> f.prefix, protect |-> f.protect, buf |-> f.buf, page |-> f.page,
            loaded |-> f.loaded, busy |-> f.busy]
  BY <1>1, Times, Ends
<1>12. x \in Flash /\ y \in Flash
  <2>1. ProgramCycles \in Nat /\ "Status" \in Modes /\ "Read" \in Modes
    BY Times, ModeNames
  <2>2. x \in Flash
    BY <1>1, <1>8, <1>10, <2>1, ChipFields DEF Flash
  <2>3. y \in Flash
    BY <1>1, <1>11, <2>1, ChipFields DEF Flash
  <2> QED BY <2>2, <2>3
<1> HIDE DEF x, y
<1>13. ASSUME NEW w \in {x, y} PROVE FlashOK(page_reset(w))
  <2> DEFINE n == page_reset(w)
  <2>1. /\ w \in Flash /\ w.seq = 0 /\ w.mode \in {"Status", "Read"}
        /\ w.busy \in Nat /\ (w.busy > 0 => w.mode = "Status")
    BY <1>1, <1>10, <1>11, <1>12, Times
  <2>2. n = [data |-> w.data, hidden |-> w.hidden, mode |-> w.mode,
             seq |-> w.seq, prefix |-> w.prefix, protect |-> w.protect,
             buf |-> Ones, page |-> NoPage, loaded |-> 0, busy |-> w.busy]
        /\ n \in Flash
    BY <2>1, Empty
  <2> HIDE DEF n
  <2>3. n.buf = Ones /\ n.page = NoPage /\ n.loaded = 0 /\ n.busy = w.busy /\ n.mode = w.mode
        /\ n.seq = 0
    BY <2>1, <2>2
  <2>4. n = page_reset(n)
    BY <2>2, <2>3, Empty DEF NoLoad
  <2>5. n.mode \notin Programming
    BY <2>1, <2>3 DEF Programming
  <2>6. FlashOK(n)
    BY <2>1, <2>2, <2>3, <2>4, <2>5 DEF FlashOK
  <2> QED BY <2>6 DEF n
<1> QED BY <1>6, <1>13 DEF x, y

-----------------------------------------------------------------------------
(* The machine keeps TypeOK. *)

\* A byte of a page load.
LEMMA LoadTyped ==
  ASSUME NEW f, FlashOK(f), f.mode \in Programming, f.loaded < PageLen, NEW addr \in Addr,
         NEW value \in Values
  PROVE  FlashOK(load_byte(f, addr, value))
<1> DEFINE o == offset_of(addr)
           v == value % 2
           g == IF f.page = NoPage THEN page_of(addr) ELSE f.page
           b == [f.buf EXCEPT ![o] = v]
           l == f.loaded + 1
           n == load_byte(f, addr, value)
<1>1. f \in Flash /\ f.seq = 0 /\ f.prefix = 0 /\ (f.busy > 0 => f.mode = "Status")
      /\ f.mode # "Status"
  BY DEF FlashOK, Programming
<1>2. n = [f EXCEPT !.page = g, !.buf[o] = v, !.loaded = l]
  BY DEF load_byte
<1>3. v \in Bit /\ o \in 0..PageLen - 1 /\ page_of(addr) \in Addr /\ page_of(addr) # NoPage
  BY ByteNumbers, Pages
<1>4. b \in [0..PageLen - 1 -> Bit]
  <2>1. f.buf \in [0..PageLen - 1 -> Bit]
    BY <1>1, ChipFields
  <2> HIDE DEF o, v
  <2> QED BY <1>3, <2>1
<1>5. g \in Addr /\ g # NoPage
  <2>1. f.page \in Addr \union {NoPage}
    BY <1>1, ChipFields
  <2> QED BY <1>3, <2>1
<1>6. l \in 0..PageLen /\ l # 0
  <2>1. f.loaded \in 0..PageLen /\ PageLen \in Nat
    BY <1>1, ChipFields, Pages
  <2> QED BY <2>1
<1>7. b = [f.buf EXCEPT ![o] = v]
  OBVIOUS
<1> HIDE DEF o, v, g, b, l, n
<1>8. n = [data |-> f.data, hidden |-> f.hidden, mode |-> f.mode, seq |-> f.seq,
           prefix |-> f.prefix, protect |-> f.protect, buf |-> b, page |-> g,
           loaded |-> l, busy |-> f.busy]
  BY <1>1, <1>2, <1>7 DEF Flash
<1>9. n \in Flash
  BY <1>1, <1>4, <1>5, <1>6, <1>8, ChipFields DEF Flash
<1>10. n.mode = f.mode /\ n.seq = 0 /\ n.prefix = 0 /\ n.busy = f.busy /\ n.page = g
       /\ n.loaded = l
  BY <1>1, <1>8
<1>11. FlashOK(n)
  BY <1>1, <1>5, <1>6, <1>9, <1>10 DEF FlashOK
<1> QED BY <1>11 DEF n

\* A write during a page load.
LEMMA ProgramTyped ==
  ASSUME NEW f, FlashOK(f), f.mode \in Programming, NEW addr \in Addr,
         NEW value \in Values, NEW we \in BOOLEAN, NEW hidden \in BOOLEAN
  PROVE  FlashOK(program_write(f, addr, value, we, hidden))
<1> DEFINE n == program_write(f, addr, value, we, hidden)
           k == page_reset(f)
           y == blocked(k)
           e == load_byte(f, addr, value)
           c == commit_page(f, we, hidden)
<1>1. n = CASE f.loaded < PageLen -> e
            [] f.loaded = PageLen /\ value = Byte.reset -> y
            [] /\ f.loaded = PageLen /\ value # Byte.reset
               /\ f.page = page_of(addr) /\ offset_of(addr) = PageLen - 1 -> c
            [] OTHER -> f
  BY DEF program_write
<1>2. f.loaded < PageLen => FlashOK(e)
  BY LoadTyped
<1>3. FlashOK(c)
  BY CommitTyped
<1>4. f \in Flash /\ f.seq = 0 /\ f.prefix = 0 /\ (f.busy > 0 => f.mode = "Status")
      /\ f.mode # "Status"
  BY DEF FlashOK, Programming
<1>5. k \in Flash
      /\ k = [data |-> f.data, hidden |-> f.hidden, mode |-> f.mode,
              seq |-> f.seq, prefix |-> f.prefix, protect |-> f.protect,
              buf |-> Ones, page |-> NoPage, loaded |-> 0, busy |-> f.busy]
  BY <1>4, Empty
<1> HIDE DEF k
<1>6. y = [data |-> k.data, hidden |-> k.hidden, mode |-> "Read",
           seq |-> k.seq, prefix |-> k.prefix, protect |-> k.protect,
           buf |-> k.buf, page |-> k.page, loaded |-> k.loaded, busy |-> k.busy]
  <2>1. 0 \in Nat
    OBVIOUS
  <2> QED BY <1>5, <2>1, Ends
<1>7. NoLoad(k) /\ k.seq = 0 /\ k.prefix = 0 /\ ~(k.busy > 0)
  BY <1>4, <1>5 DEF NoLoad
<1>8. FlashOK(y)
  BY <1>5, <1>6, <1>7, ChipFields, ModeNames, Unloaded, SMTT(60)
<1> HIDE DEF y, e, c, n
<1>9. FlashOK(n)
  BY <1>1, <1>2, <1>3, <1>8
<1> QED BY <1>9 DEF n

\* Every write of the chip.
LEMMA WriteTyped ==
  ASSUME NEW f, FlashOK(f), NEW addr \in Addr, NEW value \in Values, NEW we \in BOOLEAN
  PROVE  FlashOK(flash_write(f, addr, value, we))
<1> DEFINE n == flash_write(f, addr, value, we)
           a == addr % HiddenSize
           p == program_write(f, addr, value, we, FALSE)
           q == program_write(f, a, value, we, TRUE)
           c == command_write(f, addr, value, we)
<1>1. n = CASE f.busy > 0 -> f
            [] f.busy = 0 /\ f.mode = "Program" -> p
            [] f.busy = 0 /\ f.mode = "ProgramHidden" -> q
            [] OTHER -> c
  BY DEF flash_write
<1>2. f.mode = "Program" => FlashOK(p)
  BY ProgramTyped DEF Programming
<1>3. f.mode = "ProgramHidden" => FlashOK(q)
  <2>1. a \in Addr
    BY Pages
  <2> HIDE DEF a
  <2> QED BY <2>1, ProgramTyped DEF Programming
<1>4. f.busy = 0 /\ f.mode \notin Programming => FlashOK(c)
  BY CommandTyped
<1>5. f.busy \in Nat
  BY ChipFields DEF FlashOK
<1>6. f.mode \in Programming <=> f.mode = "Program" \/ f.mode = "ProgramHidden"
  BY DEF Programming
<1> HIDE DEF p, q, c, n
<1>7. FlashOK(n)
  BY <1>1, <1>2, <1>3, <1>4, <1>5, <1>6
<1> QED BY <1>7 DEF n

\* Time passes for an operation that runs.
LEMMA TickTyped ==
  ASSUME NEW f, FlashOK(f), NEW t \in Nat
  PROVE  FlashOK(flash_tick(f, t))
<1> DEFINE y == IF f.busy > t THEN f.busy - t ELSE 0
           n == flash_tick(f, t)
<1>1. f \in Flash
  BY DEF FlashOK
<1>2. f.busy \in Nat
  BY <1>1, ChipFields
<1>3. y \in Nat /\ (y > 0 => f.busy > 0)
  BY <1>2
<1>4. n = [f EXCEPT !.busy = y]
  BY DEF flash_tick
<1> HIDE DEF y, n
<1>5. n = [data |-> f.data, hidden |-> f.hidden, mode |-> f.mode, seq |-> f.seq,
           prefix |-> f.prefix, protect |-> f.protect, buf |-> f.buf, page |-> f.page,
           loaded |-> f.loaded, busy |-> y]
  BY <1>1, <1>4 DEF Flash
<1>6. n \in Flash
  BY <1>1, <1>3, <1>5, ChipFields DEF Flash
<1>7. n.mode = f.mode /\ n.seq = f.seq /\ n.prefix = f.prefix /\ n.busy = y
      /\ n.page = f.page /\ n.loaded = f.loaded /\ n.buf = f.buf
  BY <1>5
<1>8. n.mode \notin Programming => n = page_reset(n)
  <2> SUFFICES ASSUME f.mode \notin Programming PROVE n = page_reset(n)
    BY <1>7
  <2>1. NoLoad(f)
    BY Outside
  <2>2. NoLoad(n)
    BY <1>7, <2>1 DEF NoLoad
  <2> QED BY <1>6, <2>2, Empty
<1>9. FlashOK(n)
  BY <1>3, <1>6, <1>7, <1>8 DEF FlashOK
<1> QED BY <1>9 DEF n

\* A chip of a new session.
LEMMA ReloadTyped ==
  /\ FlashOK(NewFlash)
  /\ \A f \in Flash : FlashOK(flash_reloaded(f))
<1> DEFINE d0 == [a \in Addr |-> 1]
           e0 == [a \in 0..HiddenSize - 1 |-> 1]
           New(d, e, t) == [data |-> d, hidden |-> e, mode |-> "Read", seq |-> 0,
                            prefix |-> 0, protect |-> t, buf |-> Ones, page |-> NoPage,
                            loaded |-> 0, busy |-> 0]
<1>1. NewFlash = New(d0, e0, FALSE)
  BY DEF NewFlash, Ones
<1>2. d0 \in [Addr -> Bit] /\ e0 \in [0..HiddenSize - 1 -> Bit]
  BY DEF Bit
<1> HIDE DEF d0, e0
<1>3. ASSUME NEW d \in [Addr -> Bit], NEW e \in [0..HiddenSize - 1 -> Bit], NEW t \in BOOLEAN
      PROVE  FlashOK(New(d, e, t)) /\ New(d, e, t) \in Flash
  <2> DEFINE n == New(d, e, t)
  <2>1. 0 \in 0..2 /\ 0 \in Nat /\ "Read" \in Modes
    BY ModeNames
  <2>2. n \in Flash
    BY <2>1, Pages DEF Flash
  <2>3. n.buf = Ones /\ n.page = NoPage /\ n.loaded = 0 /\ n.busy = 0 /\ n.mode = "Read"
    OBVIOUS
  <2> HIDE DEF n
  <2>4. n = page_reset(n)
    BY <2>2, <2>3, Empty DEF NoLoad
  <2>5. FlashOK(n)
    BY <2>2, <2>3, <2>4 DEF FlashOK, Programming
  <2> QED BY <2>2, <2>5 DEF n
<1>4. ASSUME NEW f \in Flash
      PROVE  FlashOK(flash_reloaded(f))
  <2> DEFINE n == flash_reloaded(f)
             x == f.data
             y == f.hidden
             z == f.protect
  <2>1. x \in [Addr -> Bit] /\ y \in [0..HiddenSize - 1 -> Bit] /\ z \in BOOLEAN
    BY ChipFields
  <2>2. n = [NewFlash EXCEPT !.data = x, !.hidden = y, !.protect = z]
    BY DEF flash_reloaded
  <2>3. NewFlash \in Flash
    BY <1>1, <1>2, <1>3
  <2> HIDE DEF n, x, y, z
  <2>4. n = [data |-> x, hidden |-> y, mode |-> NewFlash.mode, seq |-> NewFlash.seq,
             prefix |-> NewFlash.prefix, protect |-> z, buf |-> NewFlash.buf,
             page |-> NewFlash.page, loaded |-> NewFlash.loaded, busy |-> NewFlash.busy]
    BY <2>2, <2>3 DEF Flash
  <2>5. n = New(x, y, z)
    BY <1>1, <2>4
  <2> QED BY <1>3, <2>1, <2>5 DEF n
<1>5. FlashOK(New(d0, e0, FALSE))
  BY <1>2, <1>3
<1> QED BY <1>1, <1>4, <1>5

-----------------------------------------------------------------------------
(* The commands of the data sheet. *)

\* A bus cycle, and the two of an unlock.
BusCycles == Addr \X Nat
FirstUnlock == Cycle1(Byte.aa)
SecondUnlock == <<Unlock2, Byte.unlock>>
Openings == {Byte.program, Byte.id, Byte.erase, Byte.extended, Byte.hidden}
PrefixBytes == {Byte.erase, Byte.extended, Byte.hidden}

\* The last cycle of a command, after its prefix.
Ending(p) ==
  CASE p = Byte.erase -> {<<a, Byte.sector>> : a \in Addrs} \union {Cycle1(Byte.chip)}
    [] p = Byte.extended -> {Cycle1(v) : v \in {Byte.eraseHidden, Byte.programHidden,
                                                Byte.unprotect, Byte.protect}}
    [] p = Byte.hidden -> {Cycle1(Byte.hidden)}

\* s is what the chip has been told when it has prefix p and k cycles of an unlock.
Told(s, p, k) ==
  /\ s \in Seq(BusCycles)
  /\ IF p = 0
     THEN /\ Len(s) = k
          /\ k >= 1 => s[1] = FirstUnlock
          /\ k = 2 => s[2] = SecondUnlock
     ELSE /\ Len(s) = 3 + k
          /\ s[1] = FirstUnlock /\ s[2] = SecondUnlock /\ s[3] = Cycle1(p)
          /\ k >= 1 => s[4] = FirstUnlock
          /\ k = 2 => s[5] = SecondUnlock

\* w goes on with a command.
Follows(p, k, w) ==
  \/ k = 0 /\ w = FirstUnlock
  \/ k = 1 /\ w = SecondUnlock
  \/ k = 2 /\ p = 0 /\ \E v \in Openings : w = Cycle1(v)
  \/ k = 2 /\ p # 0 /\ w \in Ending(p)

\* The bytes are different numbers.
LEMMA CyclesTyped ==
  /\ FirstUnlock \in BusCycles /\ SecondUnlock \in BusCycles
  /\ \A v \in Openings : Cycle1(v) \in BusCycles
  /\ \A p \in PrefixBytes : Ending(p) \subseteq BusCycles
  /\ PrefixBytes \subseteq Openings /\ 0 \notin Openings
<1>1. Unlock1 \in Addr /\ Unlock2 \in Addr
  BY FlashAssumption
<1>2. \A v \in Nat : Cycle1(v) \in BusCycles
  BY <1>1 DEF Cycle1, BusCycles
<1>3. Byte.aa \in Nat /\ Byte.unlock \in Nat /\ Byte.sector \in Nat /\ Openings \subseteq Nat
      /\ PrefixBytes \subseteq Openings /\ 0 \notin Openings
  BY DEF Byte, Openings, PrefixBytes
<1>4. {Byte.chip, Byte.eraseHidden, Byte.programHidden, Byte.unprotect, Byte.protect,
       Byte.hidden} \subseteq Nat
  BY DEF Byte
<1>5. SecondUnlock \in BusCycles
  BY <1>1, <1>3 DEF SecondUnlock, BusCycles
<1>6. ASSUME NEW p \in PrefixBytes PROVE Ending(p) \subseteq BusCycles
  <2>1. \A a \in Addrs : <<a, Byte.sector>> \in BusCycles
    BY <1>3, InputAssumption DEF BusCycles
  <2>2. CASE p = Byte.erase
    <3>1. Ending(p) = {<<a, Byte.sector>> : a \in Addrs} \union {Cycle1(Byte.chip)}
      BY <2>2 DEF Ending, Byte
    <3> DEFINE e == Cycle1(Byte.chip)
    <3>2. e \in BusCycles
      BY <1>2, <1>4
    <3>3. \A w \in Ending(p) : w = e \/ \E a \in Addrs : w = <<a, Byte.sector>>
      BY <3>1
    <3> HIDE DEF e
    <3> QED BY <2>1, <3>2, <3>3
  <2>3. CASE p = Byte.extended
    <3>1. Ending(p) = {Cycle1(v) : v \in {Byte.eraseHidden, Byte.programHidden,
                                        Byte.unprotect, Byte.protect}}
      BY <2>3 DEF Ending, Byte
    <3> QED BY <1>2, <1>4, <3>1
  <2>4. CASE p = Byte.hidden
    <3>1. Ending(p) = {Cycle1(Byte.hidden)}
      BY <2>4 DEF Ending, Byte
    <3> QED BY <1>2, <1>4, <3>1
  <2> QED BY <2>2, <2>3, <2>4 DEF PrefixBytes
<1> QED BY <1>2, <1>3, <1>5, <1>6 DEF FirstUnlock

\* A command in one part.
LEMMA ShortIs ==
  ASSUME NEW v \in Openings
  PROVE  /\ Short(v) \in Seq(BusCycles) /\ Len(Short(v)) = 3
         /\ Short(v)[1] = FirstUnlock /\ Short(v)[2] = SecondUnlock /\ Short(v)[3] = Cycle1(v)
<1> DEFINE u == Unlock
           t == <<Cycle1(v)>>
           e == Cycle1(v)
<1>1. FirstUnlock \in BusCycles /\ SecondUnlock \in BusCycles /\ e \in BusCycles
  BY CyclesTyped
<1>2. u = <<FirstUnlock, SecondUnlock>> /\ Short(v) = u \o t
  BY DEF Unlock, FirstUnlock, SecondUnlock, Short
<1> HIDE DEF u, e
<1>3. u \in Seq(BusCycles) /\ Len(u) = 2 /\ u[1] = FirstUnlock /\ u[2] = SecondUnlock
  BY <1>1, <1>2
<1>4. t \in Seq(BusCycles) /\ Len(t) = 1 /\ t[1] = Cycle1(v)
  BY <1>1 DEF e
<1> HIDE DEF t
<1>5. /\ u \o t \in Seq(BusCycles)
      /\ Len(u \o t) = Len(u) + Len(t)
      /\ \A i \in 1 .. Len(u) + Len(t) :
           (u \o t)[i] = IF i <= Len(u) THEN u[i] ELSE t[i - Len(u)]
  BY <1>3, <1>4, ConcatProperties
<1> HIDE DEF u
<1> DEFINE z == u \o t
<1> HIDE DEF z
<1>6. z \in Seq(BusCycles) /\ Len(z) = 3
      /\ \A i \in 1..3 : z[i] = IF i <= 2 THEN u[i] ELSE t[i - 2]
  BY <1>3, <1>4, <1>5 DEF z
<1>7. z[1] = u[1] /\ z[2] = u[2] /\ z[3] = t[1]
  BY <1>6
<1> QED BY <1>2, <1>3, <1>4, <1>6, <1>7 DEF z

\* A command in two parts.
LEMMA LongIs ==
  ASSUME NEW p \in PrefixBytes, NEW w \in BusCycles
  PROVE  LET c == Long(p, w)
         IN  /\ c \in Seq(BusCycles) /\ Len(c) = 6
             /\ c[1] = FirstUnlock /\ c[2] = SecondUnlock /\ c[3] = Cycle1(p)
             /\ c[4] = FirstUnlock /\ c[5] = SecondUnlock /\ c[6] = w
<1> DEFINE s == Short(p)
           u == Unlock
           t == <<w>>
           x == s \o u
           c == x \o t
<1>1. FirstUnlock \in BusCycles /\ SecondUnlock \in BusCycles
  BY CyclesTyped
<1>2. u = <<FirstUnlock, SecondUnlock>>
  BY DEF Unlock, FirstUnlock, SecondUnlock
<1>3. Long(p, w) = s \o u \o t
  BY DEF Long
<1> HIDE DEF u
<1>4. u \in Seq(BusCycles) /\ Len(u) = 2 /\ u[1] = FirstUnlock /\ u[2] = SecondUnlock
  BY <1>1, <1>2
<1>5. t \in Seq(BusCycles) /\ Len(t) = 1 /\ t[1] = w
  OBVIOUS
<1>6. /\ s \in Seq(BusCycles) /\ Len(s) = 3
      /\ s[1] = FirstUnlock /\ s[2] = SecondUnlock /\ s[3] = Cycle1(p)
  BY ShortIs, CyclesTyped
<1> HIDE DEF s, t
<1>7. /\ x \in Seq(BusCycles) /\ Len(x) = Len(s) + Len(u)
      /\ \A i \in 1..Len(s) + Len(u) : x[i] = IF i <= Len(s) THEN s[i] ELSE u[i - Len(s)]
  BY <1>4, <1>6, ConcatProperties
<1> HIDE DEF x
<1>8. Len(x) = 5 /\ \A i \in 1..5 : x[i] = IF i <= 3 THEN s[i] ELSE u[i - 3]
  BY <1>4, <1>6, <1>7
<1>9. x[1] = s[1] /\ x[2] = s[2] /\ x[3] = s[3] /\ x[4] = u[1] /\ x[5] = u[2]
  BY <1>8
<1>10. /\ c \in Seq(BusCycles) /\ Len(c) = Len(x) + Len(t)
       /\ \A i \in 1..Len(x) + Len(t) : c[i] = IF i <= Len(x) THEN x[i] ELSE t[i - Len(x)]
  <2>1. x \in Seq(BusCycles) /\ t \in Seq(BusCycles)
    BY <1>5, <1>7
  <2> QED BY <2>1, ConcatProperties
<1> HIDE DEF c
<1>11. Len(c) = 6 /\ \A i \in 1..6 : c[i] = IF i <= 5 THEN x[i] ELSE t[i - 5]
  BY <1>5, <1>8, <1>10
<1>12. c[1] = x[1] /\ c[2] = x[2] /\ c[3] = x[3] /\ c[4] = x[4] /\ c[5] = x[5] /\ c[6] = t[1]
  BY <1>11
<1>13. Long(p, w) = c
  BY <1>3 DEF c, x
<1> QED BY <1>4, <1>5, <1>6, <1>9, <1>10, <1>11, <1>12, <1>13

\* The commands are these.
LEMMA CommandsAre ==
  /\ \A v \in {Byte.program, Byte.id} : Short(v) \in Commands
  /\ \A p \in PrefixBytes : \A w \in Ending(p) : Long(p, w) \in Commands
  /\ \A c \in Commands : \/ \E v \in {Byte.program, Byte.id} : c = Short(v)
                         \/ \E p \in PrefixBytes : \E w \in Ending(p) : c = Long(p, w)
<1>1. /\ Ending(Byte.erase) = {<<a, Byte.sector>> : a \in Addrs} \union {Cycle1(Byte.chip)}
      /\ Ending(Byte.extended) = {Cycle1(v) : v \in {Byte.eraseHidden, Byte.programHidden,
                                                   Byte.unprotect, Byte.protect}}
      /\ Ending(Byte.hidden) = {Cycle1(Byte.hidden)}
  BY DEF Ending, Byte
<1>2. PrefixBytes = {Byte.erase, Byte.extended, Byte.hidden}
  BY DEF PrefixBytes
<1>3. \A p \in PrefixBytes : \A w \in Ending(p) : Long(p, w) \in Commands
  BY <1>1, <1>2 DEF Commands, SectorErase, ChipErase, Extended
<1>4. ASSUME NEW c \in Commands
      PROVE  \/ \E v \in {Byte.program, Byte.id} : c = Short(v)
             \/ \E p \in PrefixBytes : \E w \in Ending(p) : c = Long(p, w)
  BY <1>1, <1>2 DEF Commands, SectorErase, ChipErase, Extended
<1> QED BY <1>3, <1>4 DEF Commands

\* How a sequence begins another.
LEMMA Prefixed ==
  ASSUME NEW S, NEW s \in Seq(S), NEW w \in S, NEW c \in Seq(S)
  PROVE  Append(s, w) \in Prefixes(c) <=>
           /\ Len(s) < Len(c) /\ c[Len(s) + 1] = w
           /\ \A i \in 1..Len(s) : c[i] = s[i]
<1> DEFINE n == Append(s, w)
           k == Len(s)
           l == Len(c)
<1>1. /\ n \in Seq(S) /\ Len(n) = k + 1 /\ n[k + 1] = w
      /\ \A i \in 1..k : n[i] = s[i]
  BY AppendProperties
<1>2. k \in Nat /\ l \in Nat /\ \A i \in 1..l : c[i] \in S
  BY ElementOfSeq, LenProperties
<1>3. Prefixes(c) = {SubSeq(c, 1, m) : m \in 0..l}
  BY DEF Prefixes
<1> HIDE DEF n, k, l
<1>4. ASSUME NEW m \in 0..l
      PROVE  /\ SubSeq(c, 1, m) \in Seq(S) /\ Len(SubSeq(c, 1, m)) = m
             /\ \A i \in 1..m : SubSeq(c, 1, m)[i] = c[i]
  <2>1. m \in Int /\ 1 \in Int /\ \A i \in 1..m : c[i] \in S
    BY <1>2
  <2>2. /\ SubSeq(c, 1, m) \in Seq(S)
        /\ Len(SubSeq(c, 1, m)) = IF 1 <= m THEN m - 1 + 1 ELSE 0
        /\ \A i \in 1..m - 1 + 1 : SubSeq(c, 1, m)[i] = c[1 + i - 1]
    BY <2>1, SubSeqProperties
  <2>3. m - 1 + 1 = m /\ (~(1 <= m) => m = 0) /\ \A i \in 1..m : 1 + i - 1 = i
    BY <1>2
  <2> QED BY <2>2, <2>3
<1>5. ASSUME n \in Prefixes(c)
      PROVE  k < l /\ c[k + 1] = w /\ \A i \in 1..k : c[i] = s[i]
  <2>1. PICK m \in 0..l : n = SubSeq(c, 1, m)
    BY <1>3, <1>5
  <2>2. m = k + 1 /\ \A i \in 1..m : n[i] = c[i]
    BY <1>1, <1>4, <2>1
  <2>3. k < l /\ k + 1 \in 1..m /\ \A i \in 1..k : i \in 1..m
    BY <1>2, <2>2
  <2> QED BY <1>1, <2>2, <2>3
<1>6. ASSUME k < l, c[k + 1] = w, \A i \in 1..k : c[i] = s[i]
      PROVE  n \in Prefixes(c)
  <2> DEFINE t == SubSeq(c, 1, k + 1)
  <2>1. k + 1 \in 0..l
    BY <1>2, <1>6
  <2>2. t \in Seq(S) /\ Len(t) = k + 1 /\ \A i \in 1..k + 1 : t[i] = c[i]
    BY <1>4, <2>1
  <2> HIDE DEF t
  <2>3. \A i \in 1..k + 1 : n[i] = t[i]
    <3> TAKE i \in 1..k + 1
    <3>1. i \in 1..k \/ i = k + 1
      BY <1>2
    <3> QED BY <1>1, <1>6, <2>2, <3>1
  <2>4. n = t
    BY <1>1, <2>2, <2>3, SeqEqual
  <2> QED BY <1>3, <2>1, <2>4 DEF t
<1> QED BY <1>5, <1>6 DEF n, k, l

-----------------------------------------------------------------------------
(* What the chip has been told, cycle by cycle. *)

\* The command bytes tell their cycles apart, and every prefix has an ending.
LEMMA BytesApart ==
  /\ \A u, v : Cycle1(u) = Cycle1(v) => u = v
  /\ \A v \in PrefixBytes : v # Byte.program /\ v # Byte.id
  /\ \A p \in PrefixBytes : \E w \in Ending(p) : w \in BusCycles
<1>1. \A u, v : Cycle1(u) = Cycle1(v) => u = v
  BY DEF Cycle1
<1>2. \A v \in PrefixBytes : v # Byte.program /\ v # Byte.id
  BY DEF PrefixBytes, Byte
<1>3. Cycle1(Byte.chip) \in Ending(Byte.erase)
  BY DEF Ending, Byte
<1>4. Cycle1(Byte.protect) \in Ending(Byte.extended)
  BY DEF Ending, Byte
<1>5. Cycle1(Byte.hidden) \in Ending(Byte.hidden)
  BY DEF Ending, Byte
<1>6. \A p \in PrefixBytes : \E w \in Ending(p) : w \in BusCycles
  <2>1. \A p \in PrefixBytes : Ending(p) \subseteq BusCycles
    BY CyclesTyped
  <2> QED BY <1>3, <1>4, <1>5, <2>1 DEF PrefixBytes
<1> QED BY <1>1, <1>2, <1>6

\* The cycles of every command.
LEMMA CommandShape ==
  ASSUME NEW c \in Commands
  PROVE  /\ c \in Seq(BusCycles) /\ c[1] = FirstUnlock /\ c[2] = SecondUnlock
         /\ \/ Len(c) = 3 /\ \E v \in {Byte.program, Byte.id} : c[3] = Cycle1(v)
            \/ /\ Len(c) = 6 /\ c[4] = FirstUnlock /\ c[5] = SecondUnlock
               /\ \E p \in PrefixBytes : c[3] = Cycle1(p) /\ c[6] \in Ending(p)
<1>1. CASE \E v \in {Byte.program, Byte.id} : c = Short(v)
  <2>1. PICK v \in {Byte.program, Byte.id} : c = Short(v)
    BY <1>1
  <2>2. v \in Openings
    BY DEF Openings
  <2> QED BY <2>1, <2>2, ShortIs
<1>2. CASE \E p \in PrefixBytes : \E w \in Ending(p) : c = Long(p, w)
  <2>3. PICK p \in PrefixBytes : \E w \in Ending(p) : c = Long(p, w)
    BY <1>2
  <2>1. PICK w \in Ending(p) : c = Long(p, w)
    BY <2>3
  <2>2. w \in BusCycles
    BY CyclesTyped
  <2>4. /\ c \in Seq(BusCycles) /\ Len(c) = 6
        /\ c[1] = FirstUnlock /\ c[2] = SecondUnlock /\ c[3] = Cycle1(p)
        /\ c[4] = FirstUnlock /\ c[5] = SecondUnlock /\ c[6] = w
    BY <2>1, <2>2, LongIs
  <2> QED BY <2>4
<1> QED BY <1>1, <1>2, CommandsAre

\* Every way a command goes on is begun by one.
LEMMA Witness ==
  ASSUME NEW p \in {0} \union PrefixBytes, NEW k \in 0..2, NEW s, Told(s, p, k),
         NEW w \in BusCycles, Follows(p, k, w)
  PROVE  \E c \in Commands :
           /\ Len(s) < Len(c) /\ c[Len(s) + 1] = w
           /\ \A i \in 1..Len(s) : c[i] = s[i]
<1>1. CASE p = 0 /\ k < 2
  <2> DEFINE c == Short(Byte.id)
  <2>1. c \in Commands /\ Len(c) = 3 /\ c[1] = FirstUnlock /\ c[2] = SecondUnlock
    BY CommandsAre, ShortIs DEF Openings
  <2> HIDE DEF c
  <2>2. k = 0 \/ k = 1
    BY <1>1
  <2>3. CASE k = 0
    <3>1. Len(s) = 0 /\ w = FirstUnlock
      BY <1>1, <2>3 DEF Told, Follows
    <3> QED BY <2>1, <3>1
  <2>4. CASE k = 1
    <3>1. Len(s) = 1 /\ s[1] = FirstUnlock /\ w = SecondUnlock
      BY <1>1, <2>4 DEF Told, Follows
    <3> QED BY <2>1, <3>1
  <2> QED BY <2>2, <2>3, <2>4
<1>2. CASE p = 0 /\ k = 2
  <2>1. Len(s) = 2 /\ s[1] = FirstUnlock /\ s[2] = SecondUnlock
    BY <1>2 DEF Told
  <2>2. PICK v \in Openings : w = Cycle1(v)
    BY <1>2 DEF Follows
  <2>3. v \in {Byte.program, Byte.id} \/ v \in PrefixBytes
    BY DEF Openings, PrefixBytes
  <2>4. \E c \in Commands : /\ Len(c) \in {3, 6} /\ c[1] = FirstUnlock
                             /\ c[2] = SecondUnlock /\ c[3] = w
    <3>1. CASE v \in {Byte.program, Byte.id}
      BY <2>2, <3>1, CommandsAre, ShortIs
    <3>2. CASE v \in PrefixBytes
      <4>1. PICK e \in Ending(v) : e \in BusCycles
        BY <3>2, BytesApart
      <4> QED BY <2>2, <3>2, <4>1, CommandsAre, LongIs
    <3> QED BY <2>3, <3>1, <3>2
  <2>5. \A i \in 1..2 : i = 1 \/ i = 2
    OBVIOUS
  <2> QED BY <2>1, <2>4, <2>5
<1>3. CASE p # 0
  <2>1. p \in PrefixBytes /\ Len(s) = 3 + k /\ s[1] = FirstUnlock /\ s[2] = SecondUnlock
        /\ s[3] = Cycle1(p) /\ (k >= 1 => s[4] = FirstUnlock) /\ (k = 2 => s[5] = SecondUnlock)
    BY <1>3 DEF Told
  <2>2. PICK e \in Ending(p) : e \in BusCycles /\ (k = 2 => e = w)
    <3>1. CASE k = 2
      BY <1>3, <3>1 DEF Follows
    <3>2. CASE k # 2
      BY <2>1, <3>2, BytesApart
    <3> QED BY <3>1, <3>2
  <2> DEFINE c == Long(p, e)
  <2>3. /\ c \in Commands /\ Len(c) = 6 /\ c[1] = FirstUnlock /\ c[2] = SecondUnlock
        /\ c[3] = Cycle1(p) /\ c[4] = FirstUnlock /\ c[5] = SecondUnlock /\ c[6] = e
    BY <2>1, <2>2, CommandsAre, LongIs
  <2> HIDE DEF c
  <2>4. k = 0 \/ k = 1 \/ k = 2
    OBVIOUS
  <2>5. CASE k = 0
    <3>1. Len(s) = 3 /\ w = FirstUnlock /\ \A i \in 1..3 : i = 1 \/ i = 2 \/ i = 3
      BY <1>3, <2>1, <2>5 DEF Follows
    <3>2. Len(s) < Len(c) /\ c[Len(s) + 1] = w
      BY <2>3, <3>1
    <3>3. ASSUME NEW i \in 1..Len(s) PROVE c[i] = s[i]
      BY <2>1, <2>3, <3>1
    <3> QED BY <2>3, <3>2, <3>3
  <2>6. CASE k = 1
    <3>1. Len(s) = 4 /\ w = SecondUnlock /\ \A i \in 1..4 : i = 1 \/ i = 2 \/ i = 3 \/ i = 4
      BY <1>3, <2>1, <2>6 DEF Follows
    <3>2. Len(s) < Len(c) /\ c[Len(s) + 1] = w
      BY <2>3, <3>1
    <3>3. ASSUME NEW i \in 1..Len(s) PROVE c[i] = s[i]
      BY <2>1, <2>3, <2>6, <3>1
    <3> QED BY <2>3, <3>2, <3>3
  <2>7. CASE k = 2
    <3>1. Len(s) = 5 /\ w = e
          /\ \A i \in 1..5 : i = 1 \/ i = 2 \/ i = 3 \/ i = 4 \/ i = 5
      BY <1>3, <2>1, <2>2, <2>7
    <3>2. Len(s) < Len(c) /\ c[Len(s) + 1] = w
      BY <2>3, <3>1
    <3>3. ASSUME NEW i \in 1..Len(s) PROVE c[i] = s[i]
      BY <2>1, <2>3, <2>7, <3>1
    <3> QED BY <2>3, <3>2, <3>3
  <2> QED BY <2>4, <2>5, <2>6, <2>7
<1> QED BY <1>1, <1>2, <1>3

\* A cycle goes on with a command exactly if it follows.
LEMMA GoesOn ==
  ASSUME NEW p \in {0} \union PrefixBytes, NEW k \in 0..2, NEW s, Told(s, p, k),
         NEW w \in BusCycles
  PROVE  Append(s, w) \in Begun <=> Follows(p, k, w)
<1>1. s \in Seq(BusCycles)
  BY DEF Told
<1>2. ASSUME NEW c \in Commands
      PROVE  Append(s, w) \in Prefixes(c) <=>
               /\ Len(s) < Len(c) /\ c[Len(s) + 1] = w
               /\ \A i \in 1..Len(s) : c[i] = s[i]
  <2>1. c \in Seq(BusCycles)
    BY CommandShape
  <2> QED BY <1>1, <2>1, Prefixed
<1>3. Append(s, w) \in Begun <=> \E c \in Commands : Append(s, w) \in Prefixes(c)
  BY DEF Begun
<1>4. ASSUME Follows(p, k, w) PROVE Append(s, w) \in Begun
  BY <1>2, <1>3, <1>4, Witness
<1>5. ASSUME NEW c \in Commands, Len(s) < Len(c), c[Len(s) + 1] = w,
             \A i \in 1..Len(s) : c[i] = s[i]
      PROVE  Follows(p, k, w)
  <2>1. /\ c[1] = FirstUnlock /\ c[2] = SecondUnlock
        /\ \/ Len(c) = 3 /\ \E v \in {Byte.program, Byte.id} : c[3] = Cycle1(v)
           \/ /\ Len(c) = 6 /\ c[4] = FirstUnlock /\ c[5] = SecondUnlock
              /\ \E q \in PrefixBytes : c[3] = Cycle1(q) /\ c[6] \in Ending(q)
    BY CommandShape
  <2>2. k = 0 \/ k = 1 \/ k = 2
    OBVIOUS
  <2>3. CASE p = 0
    <3>1. Len(s) = k
      BY <2>3 DEF Told
    <3>2. k = 0 => w = FirstUnlock
      BY <1>5, <2>1, <3>1
    <3>3. k = 1 => w = SecondUnlock
      BY <1>5, <2>1, <3>1
    <3>4. k = 2 => \E v \in Openings : w = Cycle1(v)
      <4>1. \A v \in {Byte.program, Byte.id} : v \in Openings
        BY DEF Openings
      <4>2. \A v \in PrefixBytes : v \in Openings
        BY CyclesTyped
      <4> QED BY <1>5, <2>1, <3>1, <4>1, <4>2
    <3> QED BY <2>2, <2>3, <3>2, <3>3, <3>4 DEF Follows
  <2>4. CASE p # 0
    <3>1. Len(s) = 3 + k /\ s[3] = Cycle1(p)
      BY <2>4 DEF Told
    <3>2. Len(c) = 6
      BY <1>5, <2>1, <2>2, <3>1
    <3>3. PICK q \in PrefixBytes : c[3] = Cycle1(q) /\ c[6] \in Ending(q)
      BY <2>1, <3>2
    <3>4. c[3] = s[3]
      <4>1. 3 \in 1..Len(s)
        BY <3>1
      <4> QED BY <1>5, <4>1
    <3>5. q = p
      BY <3>1, <3>3, <3>4, BytesApart
    <3>6. k = 0 => w = FirstUnlock
      BY <1>5, <2>1, <3>1, <3>2
    <3>7. k = 1 => w = SecondUnlock
      BY <1>5, <2>1, <3>1, <3>2
    <3>8. k = 2 => w \in Ending(p)
      BY <1>5, <3>1, <3>3, <3>5
    <3> QED BY <2>2, <2>4, <3>6, <3>7, <3>8 DEF Follows
  <2> QED BY <2>3, <2>4
<1> QED BY <1>2, <1>3, <1>4, <1>5

-----------------------------------------------------------------------------
(* What the chip has been told, after one more cycle. *)

\* A sequence and one more cycle.
LEMMA OneMore ==
  ASSUME NEW s \in Seq(BusCycles), NEW w \in BusCycles
  PROVE  LET n == Append(s, w)
         IN  /\ n \in Seq(BusCycles) /\ Len(n) = Len(s) + 1 /\ n[Len(s) + 1] = w
             /\ \A i \in 1..Len(s) : n[i] = s[i]
BY AppendProperties

\* A part of a command is told further.
LEMMA ToldFurther ==
  ASSUME NEW p \in {0} \union PrefixBytes, NEW k \in 0..1, NEW s, Told(s, p, k),
         NEW w \in BusCycles, Follows(p, k, w)
  PROVE  Told(Append(s, w), p, k + 1) /\ Append(s, w) \notin Commands
<1> DEFINE n == Append(s, w)
           l == Len(s)
<1>1. s \in Seq(BusCycles)
  BY DEF Told
<1>2. n \in Seq(BusCycles) /\ Len(n) = l + 1 /\ n[l + 1] = w /\ \A i \in 1..l : n[i] = s[i]
  BY <1>1, OneMore
<1> HIDE DEF n
<1>3. (k = 0 /\ w = FirstUnlock) \/ (k = 1 /\ w = SecondUnlock)
  BY DEF Follows
<1>4. \A c \in Commands : Len(c) = 3 \/ Len(c) = 6
  BY CommandShape
<1>5. CASE p = 0
  <2>1. l = k /\ (k = 1 => s[1] = FirstUnlock)
    BY <1>5 DEF Told
  <2>2. Len(n) = k + 1 /\ n[k + 1] = w /\ (k = 1 => n[1] = FirstUnlock)
    BY <1>2, <2>1
  <2>3. n \notin Commands
    <3>1. Len(n) # 3 /\ Len(n) # 6
      <4>1. Len(n) = k + 1
        BY <2>2
      <4> QED BY <4>1
    <3> QED BY <1>4, <3>1
  <2>4. Told(n, p, k + 1)
    BY <1>2, <1>3, <1>5, <2>2 DEF Told
  <2> QED BY <2>3, <2>4 DEF n
<1>6. CASE p # 0
  <2>1. l = 3 + k /\ s[1] = FirstUnlock /\ s[2] = SecondUnlock /\ s[3] = Cycle1(p)
        /\ (k = 1 => s[4] = FirstUnlock)
    BY <1>6 DEF Told
  <2>2. Len(n) = 4 + k /\ n[4 + k] = w /\ n[1] = FirstUnlock /\ n[2] = SecondUnlock
        /\ n[3] = Cycle1(p) /\ (k = 1 => n[4] = FirstUnlock)
    BY <1>2, <2>1
  <2>3. n \notin Commands
    <3>1. Len(n) = 4 + k
      BY <2>2
    <3>2. Len(n) # 3 /\ Len(n) # 6
      BY <3>1
    <3> QED BY <1>4, <3>2
  <2>4. Told(n, p, k + 1)
    BY <1>2, <1>3, <1>6, <2>2 DEF Told
  <2> QED BY <2>3, <2>4 DEF n
<1> QED BY <1>5, <1>6

\* A command byte after its unlock.
LEMMA ToldShort ==
  ASSUME NEW s, Told(s, 0, 2), NEW v \in Openings
  PROVE  /\ Append(s, Cycle1(v)) = Short(v)
         /\ v \in {Byte.program, Byte.id} => Short(v) \in Commands
         /\ v \in PrefixBytes => Told(Short(v), v, 0) /\ Short(v) \notin Commands
<1> DEFINE w == Cycle1(v)
           n == Append(s, w)
           t == Short(v)
<1>1. s \in Seq(BusCycles) /\ Len(s) = 2 /\ s[1] = FirstUnlock /\ s[2] = SecondUnlock
  BY DEF Told
<1>2. w \in BusCycles
  BY CyclesTyped
<1>3. t \in Seq(BusCycles) /\ Len(t) = 3 /\ t[1] = FirstUnlock /\ t[2] = SecondUnlock /\ t[3] = w
  BY ShortIs
<1>4. v \in {Byte.program, Byte.id} => t \in Commands
  BY CommandsAre
<1>5. ASSUME v \in PrefixBytes PROVE Told(t, v, 0) /\ t \notin Commands
  <2>1. v # 0
    BY CyclesTyped
  <2>2. Told(t, v, 0)
    <3> HIDE DEF t
    <3> QED BY <1>3, <2>1 DEF Told
  <2>3. ASSUME t \in Commands PROVE FALSE
    <3>1. \/ \E u \in {Byte.program, Byte.id} : t[3] = Cycle1(u)
          \/ Len(t) = 6
      BY <2>3, CommandShape
    <3> HIDE DEF t
    <3>2. PICK u \in {Byte.program, Byte.id} : Cycle1(v) = Cycle1(u)
      BY <1>3, <3>1
    <3> QED BY <1>5, <3>2, BytesApart
  <2> QED BY <2>2, <2>3
<1> HIDE DEF w, t
<1>6. n \in Seq(BusCycles) /\ Len(n) = Len(s) + 1 /\ n[Len(s) + 1] = w
      /\ \A i \in 1..Len(s) : n[i] = s[i]
  BY <1>1, <1>2, OneMore
<1> HIDE DEF n
<1>7. Len(n) = 3 /\ n[3] = w /\ n[1] = FirstUnlock /\ n[2] = SecondUnlock
  BY <1>1, <1>6
<1>8. n = t
  <2>1. \A i \in 1..3 : i = 1 \/ i = 2 \/ i = 3
    OBVIOUS
  <2>2. \A i \in 1..3 : n[i] = t[i]
    BY <1>3, <1>7, <2>1
  <2> QED BY <1>3, <1>6, <1>7, <2>2, SeqEqual
<1> QED BY <1>4, <1>5, <1>8 DEF n, t, w

\* The last cycle of a command after its prefix.
LEMMA ToldLong ==
  ASSUME NEW p \in PrefixBytes, NEW s, Told(s, p, 2), NEW w \in Ending(p)
  PROVE  Append(s, w) = Long(p, w) /\ Long(p, w) \in Commands
<1> DEFINE n == Append(s, w)
           t == Long(p, w)
<1>1. p # 0 /\ w \in BusCycles
  BY CyclesTyped
<1>2. s \in Seq(BusCycles) /\ Len(s) = 5 /\ s[1] = FirstUnlock /\ s[2] = SecondUnlock
      /\ s[3] = Cycle1(p) /\ s[4] = FirstUnlock /\ s[5] = SecondUnlock
  BY <1>1 DEF Told
<1>3. t \in Seq(BusCycles) /\ Len(t) = 6 /\ t[1] = FirstUnlock /\ t[2] = SecondUnlock
      /\ t[3] = Cycle1(p) /\ t[4] = FirstUnlock /\ t[5] = SecondUnlock /\ t[6] = w
  BY <1>1, LongIs
<1>4. t \in Commands
  BY CommandsAre
<1> HIDE DEF t
<1>5. n \in Seq(BusCycles) /\ Len(n) = Len(s) + 1 /\ n[Len(s) + 1] = w
      /\ \A i \in 1..Len(s) : n[i] = s[i]
  BY <1>1, <1>2, OneMore
<1> HIDE DEF n
<1>6. Len(n) = 6 /\ n[6] = w /\ n[1] = FirstUnlock /\ n[2] = SecondUnlock /\ n[3] = Cycle1(p)
      /\ n[4] = FirstUnlock /\ n[5] = SecondUnlock
  BY <1>2, <1>5
<1>7. n = t
  <2>1. \A i \in 1..6 : i = 1 \/ i = 2 \/ i = 3 \/ i = 4 \/ i = 5 \/ i = 6
    OBVIOUS
  <2>2. \A i \in 1..6 : n[i] = t[i]
    BY <1>3, <1>6, <2>1
  <2> QED BY <1>3, <1>5, <1>6, <2>2, SeqEqual
<1> QED BY <1>4, <1>7 DEF n, t

\* Nothing told is a part of a command, and no command.
LEMMA NothingTold == Told(<<>>, 0, 0) /\ <<>> \notin Commands
<1> DEFINE e == <<>>
<1>1. e \in Seq(BusCycles) /\ Len(e) = 0
  OBVIOUS
<1> HIDE DEF e
<1>2. Told(e, 0, 0)
  BY <1>1 DEF Told
<1>3. \A c \in Commands : Len(c) = 3 \/ Len(c) = 6
  BY CommandShape
<1> QED BY <1>1, <1>2, <1>3 DEF e

\* The two programming commands are like no other.
LEMMA ProgramApart ==
  /\ \A v \in Openings : Short(v) = Short(Byte.program) => v = Byte.program
  /\ \A v \in Openings : Short(v) # Extended(Byte.programHidden)
  /\ \A p \in PrefixBytes : \A w \in Ending(p) :
       /\ Long(p, w) # Short(Byte.program)
       /\ Long(p, w) = Extended(Byte.programHidden) =>
            p = Byte.extended /\ w = Cycle1(Byte.programHidden)
<1>1. Byte.program \in Openings /\ Byte.extended \in PrefixBytes
  BY DEF Openings, PrefixBytes
<1>2. Cycle1(Byte.programHidden) \in Ending(Byte.extended)
  BY DEF Ending, Byte
<1>3. Extended(Byte.programHidden) = Long(Byte.extended, Cycle1(Byte.programHidden))
  BY DEF Extended
<1>4. \A v \in Openings : Len(Short(v)) = 3 /\ Short(v)[3] = Cycle1(v)
  BY ShortIs
<1>5. \A p \in PrefixBytes : \A w \in Ending(p) :
        Len(Long(p, w)) = 6 /\ Long(p, w)[3] = Cycle1(p) /\ Long(p, w)[6] = w
  BY CyclesTyped, LongIs
<1>6. \A v \in Openings : Short(v) = Short(Byte.program) => v = Byte.program
  BY <1>1, <1>4, BytesApart
<1>7. \A p \in PrefixBytes : \A w \in Ending(p) : \A v \in Openings : Long(p, w) # Short(v)
  BY <1>4, <1>5
<1>8. ASSUME NEW p \in PrefixBytes, NEW w \in Ending(p),
             Long(p, w) = Extended(Byte.programHidden)
      PROVE  p = Byte.extended /\ w = Cycle1(Byte.programHidden)
  <2> DEFINE e == Byte.extended
             x == Cycle1(Byte.programHidden)
  <2>1. Long(p, w) = Long(e, x) /\ e \in PrefixBytes /\ x \in Ending(e)
    BY <1>1, <1>2, <1>3, <1>8
  <2> HIDE DEF e, x
  <2>2. Cycle1(p) = Cycle1(e) /\ w = x
    BY <1>5, <2>1
  <2> QED BY <2>2, BytesApart DEF e, x
<1> QED BY <1>1, <1>2, <1>3, <1>6, <1>7, <1>8

-----------------------------------------------------------------------------
(* What a command does to the chip. *)

\* Array, hidden region and protection are as they were.
Kept(f, n) == n.data = f.data /\ n.hidden = f.hidden /\ n.protect = f.protect

\* No command in hand, no page being loaded.
Resting(n) == n.seq = 0 /\ n.prefix = 0 /\ n.mode \notin Programming

\* What a chip with prefix p makes of the command byte of cycle w.
Turns(p, n, w, we) ==
  /\ ~Follows(p, 2, w) => Resting(n)
  /\ p = 0 =>
       \A v \in Openings : w = Cycle1(v) =>
         /\ v = Byte.id => Resting(n)
         /\ v = Byte.program => n.mode = "Program" /\ NoLoad(n)
         /\ v \in PrefixBytes => n.seq = 0 /\ n.prefix = v /\ n.mode \notin Programming
  /\ p # 0 /\ w \in Ending(p) =>
       IF p = Byte.extended /\ w = Cycle1(Byte.programHidden) /\ we
       THEN n.mode = "ProgramHidden" /\ NoLoad(n)
       ELSE Resting(n)

\* What it does to array, hidden region and protection.
Does(f, n, w, we) ==
  /\ \A a \in Addr :
       \/ n.data[a] = f.data[a]
       \/ /\ n.data[a] = 1 /\ f.prefix = Byte.erase
          /\ \/ w = Cycle1(Byte.chip)
             \/ \E b \in Addrs : w = <<b, Byte.sector>> /\ sector_of(a) = sector_of(b)
          /\ sector_of(a) = 0 => we /\ ~f.protect
  /\ \/ n.hidden = f.hidden
     \/ /\ n.hidden = [a \in DOMAIN f.hidden |-> 1]
        /\ f.prefix = Byte.extended /\ w = Cycle1(Byte.eraseHidden) /\ we
  /\ \/ n.protect = f.protect
     \/ /\ f.prefix = Byte.extended /\ we
        /\ w = Cycle1(IF n.protect THEN Byte.protect ELSE Byte.unprotect)

\* What is kept is not changed.
LEMMA KeptDoes ==
  ASSUME NEW f, NEW n, Kept(f, n), NEW w, NEW we
  PROVE  Does(f, n, w, we)
BY DEF Kept, Does

\* An erase sets the bits of its sectors, sector 0 if it may.
LEMMA EraseDoes ==
  ASSUME NEW g, Between(g), NEW sectors, NEW we \in BOOLEAN, NEW c \in Nat
  PROVE  LET n == started(erased(g, sectors, we), c)
         IN  /\ Resting(n) /\ n.hidden = g.hidden /\ n.protect = g.protect
             /\ \A a \in Addr :
                  n.data[a] = IF sector_of(a) \in sectors /\ erasable(g, sector_of(a), we)
                              THEN 1 ELSE g.data[a]
<1> DEFINE d == [a \in Addr |->
                   IF sector_of(a) \in sectors /\ erasable(g, sector_of(a), we)
                   THEN 1 ELSE g.data[a]]
           e == erased(g, sectors, we)
           n == started(e, c)
<1>1. g \in Flash /\ g.seq = 0 /\ g.prefix = 0
  BY Outside DEF Between
<1>2. e = [g EXCEPT !.data = d]
  BY DEF erased
<1>3. \A a \in Addr : d[a] = IF sector_of(a) \in sectors /\ erasable(g, sector_of(a), we)
                              THEN 1 ELSE g.data[a]
  OBVIOUS
<1>4. d \in [Addr -> Bit]
  <2>1. g.data \in [Addr -> Bit]
    BY <1>1, ChipFields
  <2> QED BY <2>1 DEF Bit
<1> HIDE DEF d, e
<1>5. e = [data |-> d, hidden |-> g.hidden, mode |-> g.mode, seq |-> g.seq,
           prefix |-> g.prefix, protect |-> g.protect, buf |-> g.buf, page |-> g.page,
           loaded |-> g.loaded, busy |-> g.busy]
  BY <1>1, <1>2 DEF Flash
<1>6. e \in Flash
  BY <1>1, <1>4, <1>5, ChipFields DEF Flash
<1>7. n = [data |-> e.data, hidden |-> e.hidden, mode |-> "Status", seq |-> e.seq,
           prefix |-> e.prefix, protect |-> e.protect, buf |-> e.buf, page |-> e.page,
           loaded |-> e.loaded, busy |-> c]
  BY <1>6, Ends
<1> HIDE DEF n
<1>8. n.data = d /\ n.hidden = g.hidden /\ n.protect = g.protect /\ n.seq = 0
      /\ n.prefix = 0 /\ n.mode = "Status"
  BY <1>1, <1>5, <1>7
<1>9. "Status" \notin Programming
  BY DEF Programming
<1> QED BY <1>3, <1>8, <1>9 DEF n, e, Resting

\* A blocked command leaves everything.
LEMMA BlockedDoes ==
  ASSUME NEW g, Between(g)
  PROVE  Resting(blocked(g)) /\ Kept(g, blocked(g))
<1>1. g \in Flash /\ g.seq = 0 /\ g.prefix = 0
  BY Outside DEF Between
<1>2. blocked(g) = [data |-> g.data, hidden |-> g.hidden, mode |-> "Read", seq |-> g.seq,
                    prefix |-> g.prefix, protect |-> g.protect, buf |-> g.buf,
                    page |-> g.page, loaded |-> g.loaded, busy |-> g.busy]
  BY <1>1, Ends
<1>3. "Read" \notin Programming
  BY DEF Programming
<1> QED BY <1>1, <1>2, <1>3 DEF Resting, Kept

\* Another mode leaves everything.
LEMMA ModeDoes ==
  ASSUME NEW g, Between(g), NEW m
  PROVE  LET n == [g EXCEPT !.mode = m]
         IN  Kept(g, n) /\ n.mode = m /\ n.seq = 0 /\ n.prefix = 0 /\ NoLoad(n)
<1>1. g \in Flash /\ NoLoad(g) /\ g.seq = 0 /\ g.prefix = 0
  BY Outside DEF Between
<1> DEFINE n == [g EXCEPT !.mode = m]
<1>2. n = [g EXCEPT !.mode = m]
  OBVIOUS
<1> HIDE DEF n
<1>3. n = [data |-> g.data, hidden |-> g.hidden, mode |-> m, seq |-> g.seq,
           prefix |-> g.prefix, protect |-> g.protect, buf |-> g.buf, page |-> g.page,
           loaded |-> g.loaded, busy |-> g.busy]
  BY <1>1, <1>2 DEF Flash
<1>4. n.data = g.data /\ n.hidden = g.hidden /\ n.protect = g.protect /\ n.mode = m
      /\ n.seq = g.seq /\ n.prefix = g.prefix /\ n.buf = g.buf /\ n.page = g.page
      /\ n.loaded = g.loaded
  BY <1>3
<1> QED BY <1>1, <1>4 DEF n, Kept, NoLoad

\* A prefix leaves everything.
LEMMA PrefixDoes ==
  ASSUME NEW g, Between(g), NEW p
  PROVE  LET n == [g EXCEPT !.prefix = p]
         IN  Kept(g, n) /\ n.prefix = p /\ n.seq = 0 /\ n.mode \notin Programming
<1>1. g \in Flash /\ g.seq = 0 /\ g.mode \notin Programming
  BY Outside DEF Between
<1> DEFINE n == [g EXCEPT !.prefix = p]
<1>2. n = [g EXCEPT !.prefix = p]
  OBVIOUS
<1> HIDE DEF n
<1>3. n = [data |-> g.data, hidden |-> g.hidden, mode |-> g.mode, seq |-> g.seq,
           prefix |-> p, protect |-> g.protect, buf |-> g.buf, page |-> g.page,
           loaded |-> g.loaded, busy |-> g.busy]
  BY <1>1, <1>2 DEF Flash
<1>4. n.data = g.data /\ n.hidden = g.hidden /\ n.protect = g.protect /\ n.mode = g.mode
      /\ n.seq = g.seq /\ n.prefix = p
  BY <1>3
<1> QED BY <1>1, <1>4 DEF n, Kept

-----------------------------------------------------------------------------
(* The command machine does what the command says. *)

\* A command of the extended family.
LEMMA ExtendedDoes ==
  ASSUME NEW g, Between(g), NEW we \in BOOLEAN,
         NEW value \in {Byte.eraseHidden, Byte.programHidden, Byte.unprotect, Byte.protect}
  PROVE  LET n == extended(g, value, we)
         IN  /\ n.data = g.data
             /\ \/ n.hidden = g.hidden
                \/ /\ n.hidden = [a \in DOMAIN g.hidden |-> 1]
                   /\ value = Byte.eraseHidden /\ we
             /\ \/ n.protect = g.protect
                \/ we /\ value = IF n.protect THEN Byte.protect ELSE Byte.unprotect
             /\ IF value = Byte.programHidden /\ we
                THEN n.mode = "ProgramHidden" /\ NoLoad(n)
                ELSE Resting(n)
<1> DEFINE n == extended(g, value, we)
<1>1. g \in Flash /\ NoLoad(g) /\ page_reset(g) = g /\ g.seq = 0 /\ g.prefix = 0
  BY Outside DEF Between
<1>2. "Status" \notin Programming
  BY DEF Programming
<1>3. CASE ~we
  <2>1. n = blocked(g)
    BY <1>3 DEF extended
  <2> HIDE DEF n
  <2> QED BY <1>3, <2>1, BlockedDoes DEF Kept, n
<1>4. CASE we /\ value = Byte.eraseHidden
  <2> DEFINE e == [a \in DOMAIN g.hidden |-> 1]
             k == [g EXCEPT !.hidden = e]
  <2>1. e \in [0..HiddenSize - 1 -> Bit]
    <3>1. DOMAIN g.hidden = 0..HiddenSize - 1
      BY <1>1, ChipFields
    <3> QED BY <3>1 DEF Bit
  <2>2. k = [g EXCEPT !.hidden = e]
    OBVIOUS
  <2>3. n = started(k, EraseCycles)
    <3>1. value # Byte.programHidden /\ value \notin {Byte.protect, Byte.unprotect}
      BY <1>4 DEF Byte
    <3> HIDE DEF e
    <3>2. n = CASE ~we -> blocked(g)
                [] we /\ value = Byte.eraseHidden -> started(k, EraseCycles)
                [] we /\ value = Byte.programHidden ->
                     [page_reset(g) EXCEPT !.mode = "ProgramHidden"]
                [] we /\ value \in {Byte.protect, Byte.unprotect} ->
                     started([g EXCEPT !.protect = (value = Byte.protect)], ProgramCycles)
      BY DEF extended, e
    <3> HIDE DEF n, k
    <3> QED BY <1>4, <3>1, <3>2
  <2> HIDE DEF e, k, n
  <2>4. k = [data |-> g.data, hidden |-> e, mode |-> g.mode, seq |-> g.seq,
             prefix |-> g.prefix, protect |-> g.protect, buf |-> g.buf, page |-> g.page,
             loaded |-> g.loaded, busy |-> g.busy]
    BY <1>1, <2>2 DEF Flash
  <2>5. k \in Flash
    BY <1>1, <2>1, <2>4, ChipFields DEF Flash
  <2>6. n = [data |-> g.data, hidden |-> e, mode |-> "Status", seq |-> g.seq,
             prefix |-> g.prefix, protect |-> g.protect, buf |-> g.buf, page |-> g.page,
             loaded |-> g.loaded, busy |-> EraseCycles]
    BY <2>3, <2>4, <2>5, Times, Ends
  <2>7. n.data = g.data /\ n.hidden = e /\ n.protect = g.protect /\ Resting(n)
    BY <1>1, <1>2, <2>6 DEF Resting
  <2>8. value # Byte.programHidden
    BY <1>4 DEF Byte
  <2> QED BY <1>4, <2>7, <2>8 DEF n, e
<1>5. CASE we /\ value = Byte.programHidden
  <2>1. n = [g EXCEPT !.mode = "ProgramHidden"]
    BY <1>1, <1>5 DEF extended, Byte
  <2> HIDE DEF n
  <2>2. Kept(g, n) /\ n.mode = "ProgramHidden" /\ NoLoad(n)
    BY <2>1, ModeDoes
  <2> QED BY <1>5, <2>2 DEF Kept, n
<1>6. CASE we /\ value \in {Byte.unprotect, Byte.protect}
  <2> DEFINE t == value = Byte.protect
             k == [g EXCEPT !.protect = t]
  <2>1. t \in BOOLEAN
    OBVIOUS
  <2>2. k = [g EXCEPT !.protect = t]
    OBVIOUS
  <2>3. n = started(k, ProgramCycles)
    BY <1>6 DEF extended, Byte
  <2>4. value = IF t THEN Byte.protect ELSE Byte.unprotect
    BY <1>6
  <2>5. value # Byte.programHidden
    BY <1>6 DEF Byte
  <2> HIDE DEF t, k, n
  <2>6. k = [data |-> g.data, hidden |-> g.hidden, mode |-> g.mode, seq |-> g.seq,
             prefix |-> g.prefix, protect |-> t, buf |-> g.buf, page |-> g.page,
             loaded |-> g.loaded, busy |-> g.busy]
    BY <1>1, <2>2 DEF Flash
  <2>7. k \in Flash
    BY <1>1, <2>1, <2>6, ChipFields DEF Flash
  <2>8. n = [data |-> g.data, hidden |-> g.hidden, mode |-> "Status", seq |-> g.seq,
             prefix |-> g.prefix, protect |-> t, buf |-> g.buf, page |-> g.page,
             loaded |-> g.loaded, busy |-> ProgramCycles]
    BY <2>3, <2>6, <2>7, Times, Ends
  <2>9. n.data = g.data /\ n.hidden = g.hidden /\ n.protect = t /\ Resting(n)
    BY <1>1, <1>2, <2>8 DEF Resting
  <2> QED BY <1>6, <2>4, <2>5, <2>9 DEF n
<1> QED BY <1>3, <1>4, <1>5, <1>6

\* The sectors of the array are among those of a chip erase.
LEMMA SectorsAre == \A a \in Addr : sector_of(a) \in Nat
<1>1. FlashSize \in Nat /\ SectorSize \in Nat /\ SectorSize > 0
  BY FlashAssumption
<1>2. ASSUME NEW a \in 0..FlashSize - 1 PROVE a \div SectorSize \in Nat
  BY <1>1
<1> QED BY <1>2 DEF Addr, sector_of

\* Neither last cycle of an erase is another's.
LEMMA EndingsApart ==
  ASSUME NEW addr \in Addrs, NEW value
  PROVE  /\ <<addr, value>> \in Ending(Byte.erase) <=>
              value = Byte.sector \/ (value = Byte.chip /\ addr = Unlock1)
         /\ <<addr, value>> \in Ending(Byte.extended) <=>
              /\ value \in {Byte.eraseHidden, Byte.programHidden, Byte.unprotect, Byte.protect}
              /\ addr = Unlock1
         /\ <<addr, value>> \in Ending(Byte.hidden) <=> value = Byte.hidden /\ addr = Unlock1
         /\ \A v : <<addr, value>> = Cycle1(v) <=> value = v /\ addr = Unlock1
<1>1. /\ Ending(Byte.erase) = {<<a, Byte.sector>> : a \in Addrs} \union {Cycle1(Byte.chip)}
      /\ Ending(Byte.extended) = {Cycle1(v) : v \in {Byte.eraseHidden, Byte.programHidden,
                                                   Byte.unprotect, Byte.protect}}
      /\ Ending(Byte.hidden) = {Cycle1(Byte.hidden)}
  BY DEF Ending, Byte
<1>2. \A v : <<addr, value>> = Cycle1(v) <=> value = v /\ addr = Unlock1
  BY DEF Cycle1
<1>3. <<addr, value>> \in {<<a, Byte.sector>> : a \in Addrs} <=> value = Byte.sector
  OBVIOUS
<1> QED BY <1>1, <1>2, <1>3

-----------------------------------------------------------------------------
(* The command machine, from the command byte up. *)

\* The sector of an erase.
LEMMA SectorDoes ==
  ASSUME NEW g, Between(g), NEW addr \in Addrs, NEW we \in BOOLEAN
  PROVE  LET n == erase_sector(g, addr, we)
         IN  /\ Resting(n) /\ n.hidden = g.hidden /\ n.protect = g.protect
             /\ \A a \in Addr :
                  \/ n.data[a] = g.data[a]
                  \/ /\ n.data[a] = 1 /\ sector_of(a) = sector_of(addr)
                     /\ sector_of(a) = 0 => we /\ ~g.protect
<1> DEFINE S == {sector_of(addr)}
           x == started(erased(g, S, we), EraseCycles)
           y == blocked(g)
           n == erase_sector(g, addr, we)
<1>1. n = IF erasable(g, sector_of(addr), we) THEN x ELSE y
  BY DEF erase_sector
<1>2. /\ Resting(x) /\ x.hidden = g.hidden /\ x.protect = g.protect
      /\ \A a \in Addr : x.data[a] = IF sector_of(a) \in S /\ erasable(g, sector_of(a), we)
                                     THEN 1 ELSE g.data[a]
  BY Times, EraseDoes
<1>3. Resting(y) /\ Kept(g, y)
  BY BlockedDoes
<1>4. \A s : erasable(g, s, we) => (s = 0 => we /\ ~g.protect)
  BY DEF erasable, sector0_writable
<1> HIDE DEF x, y, n
<1>5. CASE n = x
  BY <1>2, <1>4, <1>5 DEF n
<1>6. CASE n = y
  BY <1>3, <1>6 DEF n, Kept
<1> QED BY <1>1, <1>5, <1>6

\* The whole chip erased.
LEMMA ChipDoes ==
  ASSUME NEW g, Between(g), NEW we \in BOOLEAN
  PROVE  LET n == erase_chip(g, we)
         IN  /\ Resting(n) /\ n.hidden = g.hidden /\ n.protect = g.protect
             /\ \A a \in Addr :
                  \/ n.data[a] = g.data[a]
                  \/ n.data[a] = 1 /\ (sector_of(a) = 0 => we /\ ~g.protect)
<1> DEFINE S == 0..sector_of(FlashSize - 1)
           x == started(erased(g, S, we), ChipEraseCycles)
<1>1. erase_chip(g, we) = x
  BY DEF erase_chip
<1> HIDE DEF S
<1>2. /\ Resting(x) /\ x.hidden = g.hidden /\ x.protect = g.protect
      /\ \A a \in Addr : x.data[a] = IF sector_of(a) \in S /\ erasable(g, sector_of(a), we)
                                     THEN 1 ELSE g.data[a]
  BY Times, EraseDoes
<1>3. \A s : erasable(g, s, we) => (s = 0 => we /\ ~g.protect)
  BY DEF erasable, sector0_writable
<1> HIDE DEF x
<1> QED BY <1>1, <1>2, <1>3

\* The command byte after an unlock does what its command says, or nothing.
LEMMA DispatchDoes ==
  ASSUME NEW f \in Flash, Between([f EXCEPT !.prefix = 0]), NEW addr \in Addrs,
         NEW value, NEW we \in BOOLEAN
  PROVE  LET n == dispatch(f, addr, value, we)
         IN  Turns(f.prefix, n, <<addr, value>>, we) /\ Does(f, n, <<addr, value>>, we)
<1> DEFINE g == [f EXCEPT !.prefix = 0]
           n == dispatch(f, addr, value, we)
           w == <<addr, value>>
           p == f.prefix
           here == addr = Unlock1
           hiddens == {Byte.eraseHidden, Byte.programHidden, Byte.unprotect, Byte.protect}
<1>1. p \in {0} \union PrefixBytes /\ g = [f EXCEPT !.prefix = 0]
      /\ p \in {0, Byte.erase, Byte.extended, Byte.hidden}
  BY ChipFields DEF PrefixBytes
<1> HIDE DEF g
<1>2. Between(g) /\ Kept(f, g) /\ Kept(g, f)
  <2>1. g = [data |-> f.data, hidden |-> f.hidden, mode |-> f.mode, seq |-> f.seq,
             prefix |-> 0, protect |-> f.protect, buf |-> f.buf, page |-> f.page,
             loaded |-> f.loaded, busy |-> f.busy]
    BY <1>1 DEF Flash
  <2>2. Kept(f, g) /\ Kept(g, f)
    BY <2>1 DEF Kept
  <2> QED BY <2>2 DEF g
<1>3. Resting(g)
  BY <1>2 DEF Between, Resting
<1>4. /\ \A v : w = Cycle1(v) <=> value = v /\ here
      /\ w \in Ending(Byte.erase) <=> value = Byte.sector \/ (value = Byte.chip /\ here)
      /\ w \in Ending(Byte.extended) <=> value \in hiddens /\ here
      /\ w \in Ending(Byte.hidden) <=> value = Byte.hidden /\ here
  BY EndingsApart
<1>5. /\ \A q : q # 0 => (Follows(q, 2, w) <=> w \in Ending(q))
      /\ Follows(0, 2, w) <=> \E v \in Openings : w = Cycle1(v)
  BY DEF Follows
<1>6. /\ Byte.erase # Byte.extended /\ Byte.erase # Byte.hidden
      /\ Byte.extended # Byte.hidden /\ 0 \notin PrefixBytes
      /\ Byte.sector # Byte.chip
      /\ PrefixBytes = {Byte.erase, Byte.extended, Byte.hidden}
  BY DEF Byte, PrefixBytes
<1>7. ASSUME Kept(g, n) PROVE Does(f, n, w, we)
  <2>1. Kept(f, n)
    BY <1>2, <1>7 DEF Kept
  <2> HIDE DEF n, w
  <2> QED BY <2>1, KeptDoes
<1>8. ASSUME n = g PROVE Resting(n) /\ Kept(g, n)
  BY <1>3, <1>8 DEF Kept
<1> DEFINE x1 == [g EXCEPT !.prefix = value]
           x2 == [g EXCEPT !.mode = "Id"]
           x3 == [page_reset(g) EXCEPT !.mode = "Program"]
           x4 == erase_sector(g, addr, we)
           x5 == erase_chip(g, we)
           x6 == extended(g, value, we)
           x7 == [g EXCEPT !.mode = "HiddenRead"]
<1>13. /\ p = 0 =>
           /\ here /\ value \in PrefixBytes => n = x1
           /\ here /\ value = Byte.id => n = x2
           /\ here /\ value = Byte.program => n = x3
           /\ ~(here /\ value \in Openings) => n = g
       /\ p = Byte.erase =>
           /\ value = Byte.sector => n = x4
           /\ here /\ value = Byte.chip => n = x5
           /\ ~(value = Byte.sector \/ (here /\ value = Byte.chip)) => n = g
       /\ p = Byte.extended =>
           IF here /\ value \in hiddens THEN n = x6 ELSE n = g
       /\ p = Byte.hidden =>
           IF here /\ value = Byte.hidden THEN n = x7 ELSE n = g
  <2>1. n = CASE here /\ p = 0 /\ value \in {Byte.erase, Byte.extended, Byte.hidden} -> x1
              [] p = 0 /\ value = Byte.id /\ here -> x2
              [] p = 0 /\ value = Byte.program /\ here -> x3
              [] p = Byte.erase /\ value = Byte.sector -> x4
              [] p = Byte.erase /\ value = Byte.chip /\ here -> x5
              [] p = Byte.extended /\ here /\ value \in hiddens -> x6
              [] p = Byte.hidden /\ value = Byte.hidden /\ here -> x7
              [] OTHER -> g
    BY DEF dispatch, g
  <2> HIDE DEF n, p, here, x1, x2, x3, x4, x5, x6, x7
  <2>2. p = 0 =>
          /\ here /\ value \in PrefixBytes => n = x1
          /\ here /\ value = Byte.id => n = x2
          /\ here /\ value = Byte.program => n = x3
          /\ ~(here /\ value \in Openings) => n = g
    BY <2>1 DEF Byte, PrefixBytes, Openings
  <2>3. p = Byte.erase =>
          /\ value = Byte.sector => n = x4
          /\ here /\ value = Byte.chip => n = x5
          /\ ~(value = Byte.sector \/ (here /\ value = Byte.chip)) => n = g
    BY <2>1 DEF Byte
  <2>4. p = Byte.extended => IF here /\ value \in hiddens THEN n = x6 ELSE n = g
    BY <2>1 DEF Byte
  <2>5. p = Byte.hidden => IF here /\ value = Byte.hidden THEN n = x7 ELSE n = g
    BY <2>1 DEF Byte
  <2> QED BY <2>2, <2>3, <2>4, <2>5
<1> HIDE DEF n, x1, x2, x3, x4, x5, x6, x7
<1>9. CASE p = 0
  <2>1. /\ here /\ value \in PrefixBytes => n = x1
        /\ here /\ value = Byte.id => n = x2
        /\ here /\ value = Byte.program => n = x3
        /\ ~(here /\ value \in Openings) => n = g
    BY <1>9, <1>13
  <2>2. page_reset(g) = g
    BY <1>2, Outside DEF Between
  <2>3. "Id" \notin Programming
    BY DEF Programming
  <2>4. ASSUME here, value \in PrefixBytes
        PROVE  Kept(g, n) /\ n.seq = 0 /\ n.prefix = value /\ n.mode \notin Programming
    <3>1. n = [g EXCEPT !.prefix = value]
      BY <2>1, <2>4 DEF x1
    <3> QED BY <1>2, <3>1, PrefixDoes
  <2>5. ASSUME here, value = Byte.id PROVE Kept(g, n) /\ Resting(n)
    <3>1. n = [g EXCEPT !.mode = "Id"]
      BY <2>1, <2>5 DEF x2
    <3> QED BY <1>2, <2>3, <3>1, ModeDoes DEF Resting
  <2>6. ASSUME here, value = Byte.program
        PROVE  Kept(g, n) /\ n.mode = "Program" /\ NoLoad(n)
    <3>1. n = [g EXCEPT !.mode = "Program"]
      BY <2>1, <2>2, <2>6 DEF x3
    <3> QED BY <1>2, <3>1, ModeDoes
  <2>7. ~(here /\ value \in Openings) => Kept(g, n) /\ Resting(n)
    BY <1>8, <2>1
  <2>8. here /\ value \in Openings =>
          value \in PrefixBytes \/ value = Byte.id \/ value = Byte.program
    BY DEF Openings, PrefixBytes
  <2>9. Kept(g, n)
    BY <2>4, <2>5, <2>6, <2>7, <2>8
  <2>10. Turns(p, n, w, we)
    <3> HIDE DEF w, p
    <3> QED BY <1>4, <1>5, <1>9, <2>4, <2>5, <2>6, <2>7 DEF Turns
  <2> QED BY <1>7, <2>9, <2>10 DEF n
<1>10. CASE p = Byte.erase
  <2>1. /\ value = Byte.sector => n = x4
        /\ here /\ value = Byte.chip => n = x5
        /\ ~(value = Byte.sector \/ (here /\ value = Byte.chip)) => n = g
    BY <1>10, <1>13
  <2>2. ASSUME value = Byte.sector
        PROVE  Resting(n) /\ Does(f, n, w, we)
    <3>1. /\ Resting(n) /\ n.hidden = g.hidden /\ n.protect = g.protect
          /\ \A a \in Addr :
               \/ n.data[a] = g.data[a]
               \/ /\ n.data[a] = 1 /\ sector_of(a) = sector_of(addr)
                  /\ sector_of(a) = 0 => we /\ ~g.protect
      BY <1>2, <2>1, <2>2, SectorDoes DEF x4
    <3>2. w = <<addr, Byte.sector>>
      BY <2>2
    <3> HIDE DEF w, p
    <3>3. f.data = g.data /\ f.hidden = g.hidden /\ f.protect = g.protect
          /\ f.prefix = Byte.erase
      BY <1>2, <1>10 DEF Kept, p
    <3> QED BY <3>1, <3>2, <3>3 DEF Does
  <2>3. ASSUME here, value = Byte.chip
        PROVE  Resting(n) /\ Does(f, n, w, we)
    <3>1. /\ Resting(n) /\ n.hidden = g.hidden /\ n.protect = g.protect
          /\ \A a \in Addr :
               \/ n.data[a] = g.data[a]
               \/ n.data[a] = 1 /\ (sector_of(a) = 0 => we /\ ~g.protect)
      BY <1>2, <2>1, <2>3, ChipDoes DEF x5
    <3>2. w = Cycle1(Byte.chip)
      BY <1>4, <2>3
    <3> HIDE DEF w, p
    <3>3. f.data = g.data /\ f.hidden = g.hidden /\ f.protect = g.protect
          /\ f.prefix = Byte.erase
      BY <1>2, <1>10 DEF Kept, p
    <3> QED BY <3>1, <3>2, <3>3 DEF Does
  <2>4. ASSUME ~(value = Byte.sector \/ (here /\ value = Byte.chip))
        PROVE  Resting(n) /\ Does(f, n, w, we)
    BY <1>7, <1>8, <2>1, <2>4 DEF n
  <2>5. Resting(n) /\ Does(f, n, w, we)
    BY <2>2, <2>3, <2>4
  <2>6. Turns(p, n, w, we)
    <3> HIDE DEF w
    <3> QED BY <1>6, <1>10, <2>5 DEF Turns
  <2> QED BY <2>5, <2>6 DEF n
<1>11. CASE p = Byte.extended
  <2>1. IF here /\ value \in hiddens THEN n = x6 ELSE n = g
    BY <1>11, <1>13
  <2>2. CASE here /\ value \in hiddens
    <3>1. /\ n.data = g.data
          /\ \/ n.hidden = g.hidden
             \/ n.hidden = [a \in DOMAIN g.hidden |-> 1] /\ value = Byte.eraseHidden /\ we
          /\ \/ n.protect = g.protect
             \/ we /\ value = IF n.protect THEN Byte.protect ELSE Byte.unprotect
          /\ IF value = Byte.programHidden /\ we
             THEN n.mode = "ProgramHidden" /\ NoLoad(n)
             ELSE Resting(n)
      BY <1>2, <2>1, <2>2, ExtendedDoes DEF x6
    <3>2. \A v : w = Cycle1(v) <=> value = v
      BY <1>4, <2>2
    <3>3. w \in Ending(p)
      BY <1>4, <1>11, <2>2
    <3> HIDE DEF w, p
    <3>4. Turns(p, n, w, we)
      BY <1>5, <1>6, <1>11, <3>1, <3>2, <3>3 DEF Turns
    <3>5. f.data = g.data /\ f.hidden = g.hidden /\ f.protect = g.protect
          /\ f.prefix = Byte.extended
      BY <1>2, <1>11 DEF Kept, p
    <3>6. Does(f, n, w, we)
      BY <3>1, <3>2, <3>5 DEF Does
    <3> QED BY <3>4, <3>6 DEF w, p, n
  <2>3. CASE ~(here /\ value \in hiddens)
    <3>1. n = g
      BY <2>1, <2>3
    <3>2. Resting(n) /\ Does(f, n, w, we)
      BY <1>7, <1>8, <3>1 DEF n
    <3>3. w \notin Ending(p)
      BY <1>4, <1>11, <2>3
    <3>4. Turns(p, n, w, we)
      <4> HIDE DEF w
      <4> QED BY <1>6, <1>11, <3>2, <3>3 DEF Turns
    <3> QED BY <3>2, <3>4 DEF n
  <2> QED BY <2>2, <2>3
<1>12. CASE p = Byte.hidden
  <2>1. IF here /\ value = Byte.hidden THEN n = x7 ELSE n = g
    BY <1>12, <1>13
  <2>2. "HiddenRead" \notin Programming
    BY DEF Programming
  <2>3. Resting(n) /\ Kept(g, n)
    <3>1. CASE n = g
      BY <1>8, <3>1 DEF n
    <3>2. CASE n = x7
      <4>1. n = [g EXCEPT !.mode = "HiddenRead"]
        BY <3>2 DEF x7
      <4> QED BY <1>2, <2>2, <4>1, ModeDoes DEF Resting
    <3> QED BY <2>1, <3>1, <3>2
  <2>4. Does(f, n, w, we)
    BY <1>7, <2>3 DEF n
  <2>5. Turns(p, n, w, we)
    <3> HIDE DEF w
    <3> QED BY <1>6, <1>12, <2>3 DEF Turns
  <2> QED BY <2>4, <2>5 DEF n
<1> QED BY <1>1, <1>9, <1>10, <1>11, <1>12

\* A write of the command machine goes on with a command that it follows, and breaks off
\* the one it does not.
LEMMA CommandDoes ==
  ASSUME NEW f, FlashOK(f), f.busy = 0, f.mode \notin Programming, NEW addr \in Addrs,
         NEW value, NEW we \in BOOLEAN
  PROVE  LET n == command_write(f, addr, value, we)
             w == <<addr, value>>
         IN  /\ f.seq = 2 => Turns(f.prefix, n, w, we) /\ Does(f, n, w, we)
             /\ f.seq # 2 =>
                  /\ Kept(f, n)
                  /\ IF Follows(f.prefix, f.seq, w)
                     THEN n.seq = f.seq + 1 /\ n.prefix = f.prefix /\ n.mode \notin Programming
                     ELSE Resting(n)
<1> DEFINE z == [f EXCEPT !.seq = 0]
           d == dispatch(z, addr, value, we)
           n == command_write(f, addr, value, we)
           w == <<addr, value>>
           x0 == [f EXCEPT !.mode = "Read", !.seq = 0, !.prefix = 0]
           x1 == [f EXCEPT !.seq = 1]
           x2 == [f EXCEPT !.seq = 2]
           x3 == [f EXCEPT !.seq = 0, !.prefix = 0]
<1>1. n = CASE value = Byte.reset -> x0
            [] value # Byte.reset /\ f.seq = 0 /\ addr = Unlock1 /\ value = Byte.aa -> x1
            [] value # Byte.reset /\ f.seq = 1 /\ addr = Unlock2 /\ value = Byte.unlock -> x2
            [] value # Byte.reset /\ f.seq = 2 -> d
            [] OTHER -> x3
  BY DEF command_write
<1>2. f \in Flash /\ f.seq \in 0..2 /\ f.prefix \in {0} \union PrefixBytes
  BY ChipFields DEF FlashOK, PrefixBytes
<1>3. z \in Flash /\ Between([z EXCEPT !.prefix = 0])
  <2>1. 0 \in 0..2
    OBVIOUS
  <2> QED BY <2>1, UnlockTyped
<1>4. /\ z = [f EXCEPT !.seq = 0] /\ x1 = [f EXCEPT !.seq = 1] /\ x2 = [f EXCEPT !.seq = 2]
      /\ x0 = [f EXCEPT !.mode = "Read", !.seq = 0, !.prefix = 0]
      /\ x3 = [f EXCEPT !.seq = 0, !.prefix = 0]
  OBVIOUS
<1> HIDE DEF z, x0, x1, x2, x3
<1>5. /\ z = [data |-> f.data, hidden |-> f.hidden, mode |-> f.mode, seq |-> 0,
              prefix |-> f.prefix, protect |-> f.protect, buf |-> f.buf, page |-> f.page,
              loaded |-> f.loaded, busy |-> f.busy]
      /\ x1 = [data |-> f.data, hidden |-> f.hidden, mode |-> f.mode, seq |-> 1,
               prefix |-> f.prefix, protect |-> f.protect, buf |-> f.buf, page |-> f.page,
               loaded |-> f.loaded, busy |-> f.busy]
      /\ x2 = [data |-> f.data, hidden |-> f.hidden, mode |-> f.mode, seq |-> 2,
               prefix |-> f.prefix, protect |-> f.protect, buf |-> f.buf, page |-> f.page,
               loaded |-> f.loaded, busy |-> f.busy]
  BY <1>2, <1>4 DEF Flash
<1>6. /\ x0 = [data |-> f.data, hidden |-> f.hidden, mode |-> "Read", seq |-> 0,
               prefix |-> 0, protect |-> f.protect, buf |-> f.buf, page |-> f.page,
               loaded |-> f.loaded, busy |-> f.busy]
      /\ x3 = [data |-> f.data, hidden |-> f.hidden, mode |-> f.mode, seq |-> 0,
               prefix |-> 0, protect |-> f.protect, buf |-> f.buf, page |-> f.page,
               loaded |-> f.loaded, busy |-> f.busy]
  BY <1>2, <1>4 DEF Flash
<1>7. "Read" \notin Programming
  BY DEF Programming
<1>8. Kept(f, x0) /\ Resting(x0) /\ Kept(f, x3) /\ Resting(x3)
  BY <1>6, <1>7 DEF Kept, Resting
<1>9. /\ Kept(f, x1) /\ x1.seq = 1 /\ x1.prefix = f.prefix /\ x1.mode \notin Programming
      /\ Kept(f, x2) /\ x2.seq = 2 /\ x2.prefix = f.prefix /\ x2.mode \notin Programming
  BY <1>5 DEF Kept
<1>10. FirstUnlock = <<Unlock1, Byte.aa>> /\ SecondUnlock = <<Unlock2, Byte.unlock>>
  BY DEF FirstUnlock, SecondUnlock, Cycle1
<1>11. ASSUME f.seq # 2
       PROVE  /\ Kept(f, n)
              /\ IF Follows(f.prefix, f.seq, w)
                 THEN n.seq = f.seq + 1 /\ n.prefix = f.prefix /\ n.mode \notin Programming
                 ELSE Resting(n)
  <2>1. CASE value = Byte.reset
    <3>1. n = x0
      BY <1>1, <2>1
    <3>2. Byte.reset # Byte.aa /\ Byte.reset # Byte.unlock
      BY DEF Byte
    <3>3. w # FirstUnlock /\ w # SecondUnlock
      BY <1>10, <2>1, <3>2
    <3>4. ~Follows(f.prefix, f.seq, w)
      BY <1>11, <3>3 DEF Follows
    <3> HIDE DEF n, w
    <3> QED BY <1>8, <3>1, <3>4
  <2>2. CASE value # Byte.reset
    <3>1. f.seq = 0 \/ f.seq = 1
      BY <1>2, <1>11
    <3>2. CASE f.seq = 0
      <4>1. Follows(f.prefix, f.seq, w) <=> addr = Unlock1 /\ value = Byte.aa
        BY <1>10, <3>2 DEF Follows
      <4>2. n = IF addr = Unlock1 /\ value = Byte.aa THEN x1 ELSE x3
        BY <1>1, <2>2, <3>2
      <4>3. f.seq + 1 = 1
        BY <3>2
      <4> HIDE DEF n, w
      <4> QED BY <1>8, <1>9, <4>1, <4>2, <4>3
    <3>3. CASE f.seq = 1
      <4>1. Follows(f.prefix, f.seq, w) <=> addr = Unlock2 /\ value = Byte.unlock
        BY <1>10, <3>3 DEF Follows
      <4>2. n = IF addr = Unlock2 /\ value = Byte.unlock THEN x2 ELSE x3
        BY <1>1, <2>2, <3>3
      <4>3. f.seq + 1 = 2
        BY <3>3
      <4> HIDE DEF n, w
      <4> QED BY <1>8, <1>9, <4>1, <4>2, <4>3
    <3> QED BY <3>1, <3>2, <3>3
  <2> QED BY <2>1, <2>2
<1>12. ASSUME f.seq = 2
       PROVE  Turns(f.prefix, n, w, we) /\ Does(f, n, w, we)
  <2>1. CASE value = Byte.reset
    <3>1. n = x0
      BY <1>1, <2>1
    <3>2. value \notin Openings /\ value \notin {Byte.sector, Byte.chip, Byte.eraseHidden,
                                     Byte.programHidden, Byte.unprotect, Byte.protect}
      BY <2>1 DEF Byte, Openings
    <3>3. (\A v \in Openings : w # Cycle1(v)) /\ w \notin Ending(Byte.erase)
          /\ w \notin Ending(Byte.extended) /\ w \notin Ending(Byte.hidden)
      <4>1. Byte.hidden \in Openings
        BY DEF Openings
      <4> QED BY <3>2, <4>1, EndingsApart
    <3>4. \A p \in PrefixBytes : w \notin Ending(p)
      BY <3>3 DEF PrefixBytes
    <3>5. Resting(n) /\ Kept(f, n)
      BY <1>8, <3>1
    <3> HIDE DEF n, w
    <3>6. Turns(f.prefix, n, w, we)
      BY <1>2, <3>3, <3>4, <3>5 DEF Turns
    <3> QED BY <3>5, <3>6, KeptDoes
  <2>2. CASE value # Byte.reset
    <3>1. n = d
      BY <1>1, <1>12, <2>2
    <3>2. Turns(z.prefix, d, w, we) /\ Does(z, d, w, we)
      BY <1>3, DispatchDoes
    <3>3. z.prefix = f.prefix /\ z.data = f.data /\ z.hidden = f.hidden
          /\ z.protect = f.protect
      BY <1>5
    <3> HIDE DEF n, d, w
    <3> QED BY <3>1, <3>2, <3>3 DEF Does
  <2> QED BY <2>1, <2>2
<1> QED BY <1>11, <1>12

-----------------------------------------------------------------------------
(* The orders of the chip and what it makes of them. *)

\* The last byte loaded for place o of the page is b; ones, if none was.
LastIs(l, o, b) ==
  \/ b = 1 /\ \A n \in 1..Len(l) : offset_of(l[n][1]) # o
  \/ \E n \in 1..Len(l) :
       /\ offset_of(l[n][1]) = o /\ l[n][2] = b
       /\ \A k \in 1..Len(l) : offset_of(l[k][1]) = o => k <= n

\* The page buffer holds what was loaded.
Loaded(f, l) ==
  /\ Len(l) = f.loaded
  /\ Len(l) > 0 => f.page = page_of(l[1][1])
  /\ \A o \in 0..PageLen - 1 : LastIs(l, o, f.buf[o])

\* Orders t are those that the chip f has in hand.
Orders(f, t) ==
  /\ t \in [cmd : Seq(BusCycles), load : Seq(Addr \X Bit)]
  /\ f.mode \notin Programming =>
       /\ t.load = <<>>
       /\ t.cmd # Short(Byte.program) /\ t.cmd # Extended(Byte.programHidden)
       /\ Told(IF t.cmd \in Commands THEN <<>> ELSE t.cmd, f.prefix, f.seq)
  /\ f.mode = "Program" => t.cmd = Short(Byte.program)
  /\ f.mode = "ProgramHidden" =>
       /\ t.cmd = Extended(Byte.programHidden)
       /\ \A n \in 1..Len(t.load) : t.load[n][1] < HiddenSize
  /\ f.mode \in Programming => Loaded(f, t.load)

\* The orders of a command and nothing loaded.
Said(c) == [cmd |-> c, load |-> <<>>]

\* Both programming commands are commands.
LEMMA ProgramsAre == /\ Short(Byte.program) \in Commands
                     /\ Extended(Byte.programHidden) \in Commands
                     /\ Commands \subseteq Seq(BusCycles)
<1>1. Byte.program \in {Byte.program, Byte.id} /\ Byte.extended \in PrefixBytes
  BY DEF PrefixBytes
<1>2. Cycle1(Byte.programHidden) \in Ending(Byte.extended)
  BY DEF Ending, Byte
<1> QED BY <1>1, <1>2, CommandsAre, CommandShape DEF Extended

\* Orders as a record.
LEMMA SaidIs ==
  ASSUME NEW c \in Seq(BusCycles)
  PROVE  Said(c) \in [cmd : Seq(BusCycles), load : Seq(Addr \X Bit)]
         /\ Said(c).cmd = c /\ Said(c).load = <<>>
<1>1. <<>> \in Seq(Addr \X Bit)
  OBVIOUS
<1> QED BY <1>1 DEF Said

\* No command in hand, or one that is done with.
LEMMA RestingOrders ==
  ASSUME NEW n, Resting(n)
  PROVE  /\ Orders(n, NoOrders)
         /\ \A c \in Commands : c # Short(Byte.program) /\ c # Extended(Byte.programHidden)
              => Orders(n, Said(c))
<1>1. NoOrders = Said(<<>>) /\ <<>> \in Seq(BusCycles)
  BY DEF NoOrders, Said
<1>2. Told(<<>>, n.prefix, n.seq)
  BY NothingTold DEF Resting
<1>3. n.mode \notin Programming /\ n.mode # "Program" /\ n.mode # "ProgramHidden"
  BY DEF Resting, Programming
<1>4. ASSUME NEW c \in Seq(BusCycles), c # Short(Byte.program),
             c # Extended(Byte.programHidden), c \in Commands \/ c = <<>>
      PROVE  Orders(n, Said(c))
  <2>1. (IF c \in Commands THEN <<>> ELSE c) = <<>>
    BY <1>4
  <2> QED BY <1>2, <1>3, <1>4, <2>1, SaidIs DEF Orders
<1>5. <<>> # Short(Byte.program) /\ <<>> # Extended(Byte.programHidden)
  BY NothingTold, ProgramsAre
<1> QED BY <1>1, <1>4, <1>5, ProgramsAre

\* A part of a command.
LEMMA PartOrders ==
  ASSUME NEW n, n.mode \notin Programming, NEW c \in Seq(BusCycles), c \notin Commands,
         Told(c, n.prefix, n.seq)
  PROVE  Orders(n, Said(c))
<1>1. n.mode # "Program" /\ n.mode # "ProgramHidden"
  BY DEF Programming
<1>2. c # Short(Byte.program) /\ c # Extended(Byte.programHidden)
  BY ProgramsAre
<1> QED BY <1>1, <1>2, SaidIs DEF Orders

\* A page load begins.
LEMMA LoadOrders ==
  ASSUME NEW n, NoLoad(n)
  PROVE  /\ n.mode = "Program" => Orders(n, Said(Short(Byte.program)))
         /\ n.mode = "ProgramHidden" => Orders(n, Said(Extended(Byte.programHidden)))
<1> DEFINE l == <<>>
<1>1. Len(l) = 0 /\ l = <<>>
  OBVIOUS
<1> HIDE DEF l
<1>2. Loaded(n, l)
  <2>1. n.loaded = 0 /\ \A o \in 0..PageLen - 1 : n.buf[o] = 1
    BY DEF NoLoad, Ones
  <2>2. \A i \in 1..Len(l) : FALSE
    BY <1>1
  <2>3. \A o \in 0..PageLen - 1 : LastIs(l, o, n.buf[o])
    BY <2>1, <2>2 DEF LastIs
  <2> QED BY <1>1, <2>1, <2>3 DEF Loaded
<1>3. \A i \in 1..Len(l) : l[i][1] < HiddenSize
  BY <1>1
<1>4. ASSUME n.mode = "Program" PROVE Orders(n, Said(Short(Byte.program)))
  <2> DEFINE c == Short(Byte.program)
             t == Said(c)
  <2>1. t \in [cmd : Seq(BusCycles), load : Seq(Addr \X Bit)] /\ t.cmd = c /\ t.load = l
    BY <1>1, ProgramsAre, SaidIs
  <2>2. n.mode \in Programming
    BY <1>4 DEF Programming
  <2> HIDE DEF t
  <2> QED BY <1>2, <1>4, <2>1, <2>2 DEF Orders, t
<1>5. ASSUME n.mode = "ProgramHidden" PROVE Orders(n, Said(Extended(Byte.programHidden)))
  <2> DEFINE c == Extended(Byte.programHidden)
             t == Said(c)
  <2>1. t \in [cmd : Seq(BusCycles), load : Seq(Addr \X Bit)] /\ t.cmd = c /\ t.load = l
    BY <1>1, ProgramsAre, SaidIs
  <2>2. n.mode \in Programming
    BY <1>5 DEF Programming
  <2> HIDE DEF t
  <2> QED BY <1>2, <1>3, <1>5, <2>1, <2>2 DEF Orders, t
<1> QED BY <1>4, <1>5

\* What is heard of a write outside a page load.
LEMMA HeardIs ==
  ASSUME h \in [cmd : Seq(BusCycles), load : Seq(Addr \X Bit)], h.load = <<>>,
         h.cmd # Short(Byte.program), h.cmd # Extended(Byte.programHidden),
         NEW addr, NEW value, NEW we
  PROVE  LET next == Append(IF h.cmd \in Commands THEN <<>> ELSE h.cmd, <<addr, value>>)
         IN  heard(addr, value, we) =
               IF next = Extended(Byte.programHidden) /\ ~we THEN Said(<<>>)
               ELSE Said(IF next \in Begun THEN next ELSE <<>>)
<1> DEFINE next == Append(IF h.cmd \in Commands THEN <<>> ELSE h.cmd, <<addr, value>>)
           x == [h EXCEPT !.load = Append(@, <<addr, value % 2>>)]
           y == IF value = Byte.reset \/ addr = page_of(h.load[1][1]) + PageLen - 1
                THEN NoOrders ELSE h
           m == IF next \in Begun THEN next ELSE <<>>
           z == [h EXCEPT !.cmd = m]
           n == heard(addr, value, we)
<1>1. ~Loading
  BY DEF Loading
<1>2. n = CASE Loading /\ Len(h.load) < PageLen -> x
            [] Loading /\ Len(h.load) = PageLen -> y
            [] ~Loading /\ next = Extended(Byte.programHidden) /\ ~we -> NoOrders
            [] OTHER -> z
  BY DEF heard
<1>3. NoOrders = Said(<<>>)
  BY DEF NoOrders, Said
<1>4. z = [h EXCEPT !.cmd = m]
  OBVIOUS
<1> HIDE DEF x, y, z, n, m, next
<1>5. z = Said(m)
  BY <1>4 DEF Said
<1>6. n = IF next = Extended(Byte.programHidden) /\ ~we THEN Said(<<>>) ELSE Said(m)
  BY <1>1, <1>2, <1>3, <1>5
<1> QED BY <1>6 DEF n, m, next

\* After a write of the command machine the orders are what the chip has in hand.
LEMMA HeardCommand ==
  ASSUME NEW f, FlashOK(f), f.busy = 0, f.mode \notin Programming, Orders(f, h),
         NEW addr \in Addrs, NEW value \in Values, NEW we \in BOOLEAN
  PROVE  LET w == <<addr, value>>
             t == heard(addr, value, we)
         IN  /\ Orders(command_write(f, addr, value, we), t)
             /\ f.seq = 2 /\ f.prefix # 0 /\ w \in Ending(f.prefix)
                /\ Long(f.prefix, w) # Extended(Byte.programHidden)
                  => t.cmd = Long(f.prefix, w)
<1> DEFINE n == command_write(f, addr, value, we)
           w == <<addr, value>>
           s == IF h.cmd \in Commands THEN <<>> ELSE h.cmd
           next == Append(s, w)
           t == heard(addr, value, we)
           p == f.prefix
           k == f.seq
<1>1. p \in {0} \union PrefixBytes /\ k \in 0..2
  BY ChipFields DEF FlashOK, PrefixBytes
<1>2. Told(s, p, k)
  BY DEF Orders
<1>3. w \in BusCycles
  BY ByteNumbers, InputAssumption DEF BusCycles
<1>4. t = IF next = Extended(Byte.programHidden) /\ ~we THEN Said(<<>>)
          ELSE Said(IF next \in Begun THEN next ELSE <<>>)
  BY HeardIs DEF Orders
<1>5. /\ k = 2 => Turns(p, n, w, we)
      /\ k # 2 => IF Follows(p, k, w)
                  THEN n.seq = k + 1 /\ n.prefix = p /\ n.mode \notin Programming
                  ELSE Resting(n)
  BY CommandDoes
<1>6. NoOrders = Said(<<>>)
  BY DEF NoOrders, Said
<1> HIDE DEF s, w
<1>7. next \in Begun <=> Follows(p, k, w)
  BY <1>1, <1>2, <1>3, GoesOn
<1> HIDE DEF n, next, t, p, k
<1>8. 0 \notin PrefixBytes
  BY DEF Byte, PrefixBytes
<1>9. CASE ~Follows(p, k, w)
  <2>1. t = Said(<<>>)
    BY <1>4, <1>7, <1>9
  <2>2. Resting(n)
    BY <1>5, <1>9 DEF Turns
  <2>3. ~(k = 2 /\ p # 0 /\ w \in Ending(p))
    BY <1>9 DEF Follows
  <2>4. Orders(n, t)
    BY <1>6, <2>1, <2>2, RestingOrders
  <2> QED BY <2>3, <2>4 DEF n, w, t, p, k
<1>10. CASE Follows(p, k, w) /\ k # 2
  <2>1. k \in 0..1
    BY <1>1, <1>10
  <2>2. Told(next, p, k + 1) /\ next \notin Commands
    BY <1>1, <1>2, <1>3, <1>10, <2>1, ToldFurther DEF next
  <2>3. t = Said(next)
    BY <1>4, <1>7, <1>10, <2>2, ProgramsAre
  <2>4. n.seq = k + 1 /\ n.prefix = p /\ n.mode \notin Programming
    BY <1>5, <1>10
  <2>5. next \in Seq(BusCycles)
    BY <2>2 DEF Told
  <2>6. Orders(n, t)
    BY <2>2, <2>3, <2>4, <2>5, PartOrders
  <2> QED BY <1>10, <2>6 DEF n, w, t, p, k
<1>11. CASE Follows(p, k, w) /\ k = 2 /\ p = 0
  <2>1. PICK v \in Openings : w = Cycle1(v)
    BY <1>11 DEF Follows
  <2>2. Told(s, 0, 2)
    BY <1>2, <1>11
  <2>3. /\ next = Short(v)
        /\ v \in {Byte.program, Byte.id} => Short(v) \in Commands
        /\ v \in PrefixBytes => Told(Short(v), v, 0) /\ Short(v) \notin Commands
    BY <2>1, <2>2, ToldShort DEF next
  <2>4. t = Said(next)
    BY <1>4, <1>7, <1>11, <2>3, ProgramApart
  <2>5. /\ v = Byte.id => Resting(n)
        /\ v = Byte.program => n.mode = "Program" /\ NoLoad(n)
        /\ v \in PrefixBytes => n.seq = 0 /\ n.prefix = v /\ n.mode \notin Programming
    BY <1>5, <1>11, <2>1 DEF Turns
  <2>6. CASE v = Byte.id
    <3>1. Short(v) # Short(Byte.program) /\ Short(v) # Extended(Byte.programHidden)
      BY <2>6, ProgramApart DEF Byte
    <3>2. Short(v) \in Commands
      BY <2>3, <2>6
    <3>3. Orders(n, t)
      BY <2>3, <2>4, <2>5, <2>6, <3>1, <3>2, RestingOrders
    <3> QED BY <1>11, <3>3 DEF n, w, t, p, k
  <2>7. CASE v = Byte.program
    <3>1. Orders(n, t)
      BY <2>3, <2>4, <2>5, <2>7, LoadOrders
    <3> QED BY <1>11, <3>1 DEF n, w, t, p, k
  <2>8. CASE v \in PrefixBytes
    <3>1. Short(v) \in Seq(BusCycles)
      BY <2>1, ShortIs
    <3>2. Orders(n, t)
      BY <2>3, <2>4, <2>5, <2>8, <3>1, PartOrders
    <3> QED BY <1>11, <3>2 DEF n, w, t, p, k
  <2>9. v \in PrefixBytes \/ v = Byte.id \/ v = Byte.program
    BY DEF Openings, PrefixBytes
  <2> QED BY <2>6, <2>7, <2>8, <2>9
<1>12. CASE Follows(p, k, w) /\ k = 2 /\ p # 0
  <2>1. w \in Ending(p) /\ p \in PrefixBytes
    BY <1>1, <1>12 DEF Follows
  <2>2. Told(s, p, 2)
    BY <1>2, <1>12
  <2>3. next = Long(p, w) /\ next \in Commands
    BY <2>1, <2>2, ToldLong DEF next
  <2>4. IF p = Byte.extended /\ w = Cycle1(Byte.programHidden) /\ we
        THEN n.mode = "ProgramHidden" /\ NoLoad(n)
        ELSE Resting(n)
    BY <1>5, <1>12, <2>1 DEF Turns
  <2>5. next # Short(Byte.program)
        /\ (next = Extended(Byte.programHidden) <=>
              p = Byte.extended /\ w = Cycle1(Byte.programHidden))
    BY <2>1, <2>3, ProgramApart DEF Extended
  <2>6. CASE next = Extended(Byte.programHidden) /\ we
    <3>1. t = Said(Extended(Byte.programHidden))
      BY <1>4, <1>7, <1>12, <2>6
    <3>2. Orders(n, t)
      BY <2>4, <2>5, <2>6, <3>1, LoadOrders
    <3> QED BY <2>3, <2>6, <3>2 DEF n, w, t, p, k
  <2>7. CASE next = Extended(Byte.programHidden) /\ ~we
    <3>1. t = NoOrders /\ Resting(n)
      BY <1>4, <1>6, <2>4, <2>7
    <3>2. Orders(n, t)
      BY <3>1, RestingOrders
    <3> QED BY <2>3, <2>7, <3>2 DEF n, w, t, p, k
  <2>8. CASE next # Extended(Byte.programHidden)
    <3>1. t = Said(next) /\ Resting(n)
      BY <1>4, <1>7, <1>12, <2>4, <2>5, <2>8
    <3>2. Orders(n, t)
      BY <2>3, <2>5, <2>8, <3>1, RestingOrders
    <3>3. t.cmd = Long(p, w)
      BY <2>3, <3>1, ProgramsAre, SaidIs
    <3> QED BY <3>2, <3>3 DEF n, w, t, p, k
  <2> QED BY <2>6, <2>7, <2>8
<1> QED BY <1>9, <1>10, <1>11, <1>12

-----------------------------------------------------------------------------
(* A page load. *)

\* The address that ends a page load is the last one of the page.
LEMMA PageEnd ==
  ASSUME NEW a \in Addr, NEW b \in Addr
  PROVE  page_of(b) = page_of(a) /\ offset_of(a) = PageLen - 1 <=> a = page_of(b) + PageLen - 1
<1> DEFINE L == PageLen
           p == a \div L
           x == a % L
           q == b \div L
           y == b % L
<1>1. L \in Nat \ {0} /\ a \in Nat /\ b \in Nat
  BY Pages
<1>2. x \in 0..L - 1 /\ p \in Nat /\ a = L * p + x /\ y \in 0..L - 1 /\ q \in Nat
      /\ b = L * q + y
  BY <1>1, Rest
<1>3. page_of(a) = a - x /\ page_of(b) = b - y /\ offset_of(a) = x
  BY DEF page_of, offset_of
<1> DEFINE c == L * p
           d == L * q
<1>4. c \in Nat /\ d \in Nat
  BY <1>1, <1>2
<1>5. ASSUME a = d + L - 1 PROVE x = L - 1 /\ c = d
  <2>1. L - 1 \in Nat /\ L - 1 < L /\ a = L * q + (L - 1)
    BY <1>1, <1>4, <1>5
  <2> DEFINE m == L - 1
  <2>2. m \in Nat /\ m < L /\ a = L * q + m
    BY <2>1
  <2> HIDE DEF m
  <2>3. a \div L = q /\ a % L = m
    BY <1>1, <1>2, <2>2, Quotient
  <2> QED BY <2>3 DEF m
<1> HIDE DEF L, x, y, p, q, c, d
<1>6. a = c + x /\ b = d + y /\ x \in 0..L - 1 /\ y \in 0..L - 1
  BY <1>2 DEF c, d
<1>7. b - y = a - x /\ x = L - 1 <=> a = b - y + L - 1
  BY <1>1, <1>4, <1>5, <1>6
<1> QED BY <1>3, <1>7 DEF L

\* A page of the hidden region is below its size.
LEMMA HiddenPage ==
  ASSUME NEW a \in Addr
  PROVE  /\ a % HiddenSize < HiddenSize
         /\ a < HiddenSize => page_of(a) % HiddenSize = page_of(a)
<1> DEFINE H == HiddenSize
           x == page_of(a)
<1>1. H \in Nat \ {0} /\ a \in Nat /\ x \in Addr /\ PageLen \in Nat \ {0}
  BY Pages
<1>2. x \in Nat /\ x <= a
  <2>1. (a % PageLen) \in 0..PageLen - 1
    BY <1>1, Rest
  <2>2. x \in Nat
    BY <1>1, Pages
  <2> QED BY <1>1, <2>1, <2>2 DEF page_of
<1>3. (a % H) \in 0..H - 1
  BY <1>1, Rest
<1> HIDE DEF H, x
<1>4. ASSUME a < H PROVE x % H = x
  <2>1. x < H /\ x = H * 0 + x /\ 0 \in Nat
    BY <1>1, <1>2, <1>4
  <2> QED BY <1>1, <1>2, <2>1, Quotient
<1>5. a % H < H
  BY <1>1, <1>3
<1> QED BY <1>4, <1>5 DEF H, x

\* A byte of a page load as a record.
LEMMA LoadIs ==
  ASSUME NEW f \in Flash, NEW addr \in Addr, NEW value
  PROVE  LET n == load_byte(f, addr, value)
         IN  /\ Kept(f, n) /\ n.mode = f.mode /\ n.loaded = f.loaded + 1
             /\ n.page = IF f.page = NoPage THEN page_of(addr) ELSE f.page
             /\ n.buf = [f.buf EXCEPT ![offset_of(addr)] = value % 2]
<1> DEFINE o == offset_of(addr)
           v == value % 2
           g == IF f.page = NoPage THEN page_of(addr) ELSE f.page
           b == [f.buf EXCEPT ![o] = v]
           l == f.loaded + 1
           n == load_byte(f, addr, value)
<1>1. n = [f EXCEPT !.page = g, !.buf[o] = v, !.loaded = l]
  BY DEF load_byte
<1>2. b = [f.buf EXCEPT ![o] = v]
  OBVIOUS
<1> HIDE DEF o, v, g, b, l, n
<1>3. n = [data |-> f.data, hidden |-> f.hidden, mode |-> f.mode, seq |-> f.seq,
           prefix |-> f.prefix, protect |-> f.protect, buf |-> b, page |-> g,
           loaded |-> l, busy |-> f.busy]
  BY <1>1, <1>2 DEF Flash
<1>4. Kept(f, n) /\ n.mode = f.mode /\ n.loaded = l /\ n.page = g /\ n.buf = b
  BY <1>3 DEF Kept
<1> QED BY <1>4 DEF o, v, g, b, l, n

\* A write of the load: the last for its place, and for no other.
LEMMA LastOn ==
  ASSUME NEW l \in Seq(Addr \X Bit), NEW a \in Addr, NEW v \in Bit, NEW o, NEW b,
         LastIs(l, o, b)
  PROVE  LastIs(Append(l, <<a, v>>), o, IF offset_of(a) = o THEN v ELSE b)
<1> DEFINE w == <<a, v>>
           n == Append(l, w)
           c == Len(l)
<1>1. w \in Addr \X Bit /\ w[1] = a /\ w[2] = v
  OBVIOUS
<1> HIDE DEF w
<1>2. Len(n) = c + 1 /\ n[c + 1] = w /\ \A i \in 1..c : n[i] = l[i]
  BY <1>1, AppendProperties
<1>3. c \in Nat
  BY LenProperties
<1>4. LastIs(l, o, b) <=> \/ b = 1 /\ \A i \in 1..c : offset_of(l[i][1]) # o
                          \/ \E i \in 1..c :
                               /\ offset_of(l[i][1]) = o /\ l[i][2] = b
                               /\ \A k \in 1..c : offset_of(l[k][1]) = o => k <= i
  BY DEF LastIs
<1> HIDE DEF n, c
<1>5. \A i \in 1..c + 1 : i \in 1..c \/ i = c + 1
  BY <1>3
<1>6. \A i \in 1..c : i \in 1..c + 1
  BY <1>3
<1>7. CASE offset_of(a) = o
  <2>1. c + 1 \in 1..c + 1 /\ \A k \in 1..c + 1 : k <= c + 1
    BY <1>3
  <2>2. offset_of(n[c + 1][1]) = o /\ n[c + 1][2] = v
    BY <1>1, <1>2, <1>7
  <2>3. LastIs(n, o, v)
    BY <1>2, <2>1, <2>2 DEF LastIs
  <2> QED BY <1>7, <2>3 DEF n, w
<1>8. CASE offset_of(a) # o
  <2>1. offset_of(n[c + 1][1]) # o
    BY <1>1, <1>2, <1>8
  <2>2. CASE b = 1 /\ \A i \in 1..c : offset_of(l[i][1]) # o
    <3>1. \A i \in 1..Len(n) : offset_of(n[i][1]) # o
      BY <1>2, <1>5, <2>1, <2>2
    <3>2. LastIs(n, o, b)
      BY <2>2, <3>1 DEF LastIs
    <3> QED BY <1>8, <3>2 DEF n, w
  <2>3. CASE \E i \in 1..c : /\ offset_of(l[i][1]) = o /\ l[i][2] = b
                             /\ \A k \in 1..c : offset_of(l[k][1]) = o => k <= i
    <3>1. PICK i \in 1..c : /\ offset_of(l[i][1]) = o /\ l[i][2] = b
                            /\ \A k \in 1..c : offset_of(l[k][1]) = o => k <= i
      BY <2>3
    <3>2. \A k \in 1..c + 1 : offset_of(n[k][1]) = o => k <= i
      BY <1>2, <1>5, <2>1, <3>1
    <3>3. LastIs(n, o, b)
      BY <1>2, <1>6, <3>1, <3>2 DEF LastIs
    <3> QED BY <1>8, <3>3 DEF n, w
  <2> QED BY <1>4, <2>2, <2>3
<1> QED BY <1>7, <1>8

\* One last write there is of each place.
LEMMA LastBit ==
  ASSUME NEW o, NEW b, LastIs(h.load, o, b)
  PROVE  LoadedBit(o) = b
<1> DEFINE W == {n \in 1..Len(h.load) : offset_of(h.load[n][1]) = o}
           c == CHOOSE n \in W : \A k \in W : k <= n
<1>1. LoadedBit(o) = IF W = {} THEN 1 ELSE h.load[c][2]
  BY DEF LoadedBit
<1>2. CASE b = 1 /\ \A n \in 1..Len(h.load) : offset_of(h.load[n][1]) # o
  <2>1. W = {}
    BY <1>2
  <2> QED BY <1>1, <1>2, <2>1
<1>3. CASE \E n \in 1..Len(h.load) :
             /\ offset_of(h.load[n][1]) = o /\ h.load[n][2] = b
             /\ \A k \in 1..Len(h.load) : offset_of(h.load[k][1]) = o => k <= n
  <2>1. PICK n \in 1..Len(h.load) :
             /\ offset_of(h.load[n][1]) = o /\ h.load[n][2] = b
             /\ \A k \in 1..Len(h.load) : offset_of(h.load[k][1]) = o => k <= n
    BY <1>3
  <2>2. n \in W /\ \A k \in W : k <= n
    BY <2>1
  <2>3. W \subseteq Int
    OBVIOUS
  <2> HIDE DEF W
  <2>4. c \in W /\ \A k \in W : k <= c
    BY <2>2
  <2> HIDE DEF c
  <2>5. c = n
    BY <2>2, <2>3, <2>4
  <2> QED BY <1>1, <2>1, <2>2, <2>5
<1> QED BY <1>2, <1>3 DEF LastIs

\* What the page buffer makes of an array of bits.
Masked(f, base, was, is) ==
  \A a \in DOMAIN was :
    is[a] = IF page_of(a) = base THEN was[a] * f.buf[offset_of(a)] ELSE was[a]

\* A page committed.
LEMMA CommitDoes ==
  ASSUME NEW f, FlashOK(f), f.mode \in Programming, NEW we \in BOOLEAN, NEW hidden \in BOOLEAN
  PROVE  LET n == commit_page(f, we, hidden)
         IN  /\ Resting(n) /\ n.protect = f.protect
             /\ \/ n.data = f.data
                \/ /\ ~hidden /\ Masked(f, f.page, f.data, n.data)
                   /\ f.page < SectorSize => we /\ ~f.protect
             /\ \/ n.hidden = f.hidden
                \/ hidden /\ we /\ Masked(f, f.page % HiddenSize, f.hidden, n.hidden)
<1> DEFINE k == and_page(f, hidden)
           allowed == IF hidden THEN we ELSE f.page >= SectorSize \/ sector0_writable(f, we)
           base == f.page % HiddenSize
           e == [a \in DOMAIN f.hidden |->
                   IF page_of(a) = base THEN f.hidden[a] * f.buf[offset_of(a)]
                                        ELSE f.hidden[a]]
           d == [a \in Addr |->
                   IF page_of(a) = f.page THEN f.data[a] * f.buf[offset_of(a)] ELSE f.data[a]]
           d1 == IF hidden THEN f.data ELSE d
           e1 == IF hidden THEN e ELSE f.hidden
           n == commit_page(f, we, hidden)
<1>1. f \in Flash /\ f.seq = 0 /\ f.prefix = 0
  BY DEF FlashOK
<1>2. \A x, y \in Bit : x * y \in Bit
  BY DEF Bit
<1>3. d \in [Addr -> Bit] /\ Masked(f, f.page, f.data, d)
  <2>1. ASSUME NEW a \in Addr PROVE d[a] \in Bit
    <3>1. f.data[a] \in Bit /\ f.buf[offset_of(a)] \in Bit
      BY <1>1, ChipFields, Pages
    <3> QED BY <1>2, <3>1
  <2>2. DOMAIN f.data = Addr
    BY <1>1, ChipFields
  <2> QED BY <2>1, <2>2 DEF Masked
<1>4. e \in [0..HiddenSize - 1 -> Bit] /\ Masked(f, base, f.hidden, e)
  <2>1. DOMAIN f.hidden = 0..HiddenSize - 1
    BY <1>1, ChipFields
  <2>2. ASSUME NEW a \in 0..HiddenSize - 1
        PROVE  (IF page_of(a) = base THEN f.hidden[a] * f.buf[offset_of(a)]
                                     ELSE f.hidden[a]) \in Bit
    <3>1. a \in Addr
      BY Pages DEF Addr
    <3>2. f.hidden[a] \in Bit /\ f.buf[offset_of(a)] \in Bit
      BY <1>1, <3>1, ChipFields, Pages
    <3> QED BY <1>2, <3>2
  <2> QED BY <2>1, <2>2 DEF Masked
<1>5. k = IF hidden THEN [f EXCEPT !.hidden = e] ELSE [f EXCEPT !.data = d]
  BY DEF and_page
<1>6. n = page_reset(IF allowed THEN started(k, ProgramCycles) ELSE blocked(f))
  BY DEF commit_page
<1>7. allowed => IF hidden THEN we ELSE f.page < SectorSize => we /\ ~f.protect
  <2>1. CASE hidden
    BY <2>1
  <2>2. CASE ~hidden
    <3>1. f.page \in Int /\ SectorSize \in Int
      BY <1>1, ChipFields, FlashAssumption DEF Addr, NoPage
    <3>2. f.page >= SectorSize => ~(f.page < SectorSize)
      BY <3>1
    <3> QED BY <2>2, <3>2 DEF sector0_writable
  <2> QED BY <2>1, <2>2
<1> HIDE DEF d, e, k, n, allowed, base
<1>8. k = [data |-> d1, hidden |-> e1, mode |-> f.mode, seq |-> f.seq,
           prefix |-> f.prefix, protect |-> f.protect, buf |-> f.buf, page |-> f.page,
           loaded |-> f.loaded, busy |-> f.busy]
  BY <1>1, <1>5 DEF Flash
<1>9. d1 \in [Addr -> Bit] /\ e1 \in [0..HiddenSize - 1 -> Bit]
  BY <1>1, <1>3, <1>4, ChipFields
<1>10. d1 = f.data \/ (~hidden /\ d1 = d)
  OBVIOUS
<1>11. e1 = f.hidden \/ (hidden /\ e1 = e)
  OBVIOUS
<1> HIDE DEF d1, e1
<1>12. k \in Flash
  BY <1>1, <1>8, <1>9, ChipFields DEF Flash
<1> DEFINE x == started(k, ProgramCycles)
           y == blocked(f)
<1>13. x = [data |-> d1, hidden |-> e1, mode |-> "Status", seq |-> f.seq,
            prefix |-> f.prefix, protect |-> f.protect, buf |-> f.buf, page |-> f.page,
            loaded |-> f.loaded, busy |-> ProgramCycles]
  BY <1>8, <1>12, Times, Ends
<1>14. y = [data |-> f.data, hidden |-> f.hidden, mode |-> "Read", seq |-> f.seq,
            prefix |-> f.prefix, protect |-> f.protect, buf |-> f.buf, page |-> f.page,
            loaded |-> f.loaded, busy |-> f.busy]
  BY <1>1, Times, Ends
<1>15. x \in Flash /\ y \in Flash
  <2>1. ProgramCycles \in Nat /\ "Status" \in Modes /\ "Read" \in Modes
    BY Times, ModeNames
  <2>2. x \in Flash
    BY <1>1, <1>9, <1>13, <2>1, ChipFields DEF Flash
  <2>3. y \in Flash
    BY <1>1, <1>14, <2>1, ChipFields DEF Flash
  <2> QED BY <2>2, <2>3
<1>16. n = page_reset(IF allowed THEN x ELSE y)
  BY <1>6
<1> HIDE DEF x, y
<1>17. "Status" \notin Programming /\ "Read" \notin Programming
  BY DEF Programming
<1>18. CASE allowed
  <2>1. n = [data |-> x.data, hidden |-> x.hidden, mode |-> x.mode,
             seq |-> x.seq, prefix |-> x.prefix, protect |-> x.protect,
             buf |-> Ones, page |-> NoPage, loaded |-> 0, busy |-> x.busy]
    BY <1>15, <1>16, <1>18, Empty
  <2>2. n.data = d1 /\ n.hidden = e1 /\ n.protect = f.protect /\ n.seq = 0 /\ n.prefix = 0
        /\ n.mode = "Status"
    BY <1>1, <1>13, <2>1
  <2>3. Resting(n)
    BY <1>17, <2>2 DEF Resting
  <2> QED BY <1>3, <1>4, <1>7, <1>10, <1>11, <1>18, <2>2, <2>3 DEF n, base
<1>19. CASE ~allowed
  <2>1. n = [data |-> y.data, hidden |-> y.hidden, mode |-> y.mode,
             seq |-> y.seq, prefix |-> y.prefix, protect |-> y.protect,
             buf |-> Ones, page |-> NoPage, loaded |-> 0, busy |-> y.busy]
    BY <1>15, <1>16, <1>19, Empty
  <2>2. n.data = f.data /\ n.hidden = f.hidden /\ n.protect = f.protect /\ n.seq = 0
        /\ n.prefix = 0 /\ n.mode = "Read"
    BY <1>1, <1>14, <2>1
  <2>3. Resting(n)
    BY <1>17, <2>2 DEF Resting
  <2> QED BY <2>2, <2>3 DEF n
<1> QED BY <1>18, <1>19

\* A page load given up.
LEMMA GivenUp ==
  ASSUME NEW f, FlashOK(f), f.mode \in Programming
  PROVE  Resting(blocked(page_reset(f))) /\ Kept(f, blocked(page_reset(f)))
<1> DEFINE k == page_reset(f)
           n == blocked(k)
<1>1. f \in Flash /\ f.seq = 0 /\ f.prefix = 0
  BY DEF FlashOK
<1>2. k \in Flash
      /\ k = [data |-> f.data, hidden |-> f.hidden, mode |-> f.mode,
              seq |-> f.seq, prefix |-> f.prefix, protect |-> f.protect,
              buf |-> Ones, page |-> NoPage, loaded |-> 0, busy |-> f.busy]
  BY <1>1, Empty
<1> HIDE DEF k
<1>3. n = [data |-> k.data, hidden |-> k.hidden, mode |-> "Read",
           seq |-> k.seq, prefix |-> k.prefix, protect |-> k.protect,
           buf |-> k.buf, page |-> k.page, loaded |-> k.loaded, busy |-> k.busy]
  <2>1. 0 \in Nat
    OBVIOUS
  <2> QED BY <1>2, <2>1, Ends
<1> HIDE DEF n
<1>4. n.data = f.data /\ n.hidden = f.hidden /\ n.protect = f.protect /\ n.seq = 0
      /\ n.prefix = 0 /\ n.mode = "Read"
  BY <1>1, <1>2, <1>3
<1>5. "Read" \notin Programming
  BY DEF Programming
<1> QED BY <1>4, <1>5 DEF n, k, Kept, Resting

\* What is heard of a write in a page load.
LEMMA HeardLoading ==
  ASSUME h \in [cmd : Seq(BusCycles), load : Seq(Addr \X Bit)], Loading,
         NEW addr, NEW value, NEW we
  PROVE  LET t == heard(addr, value, we)
             first == h.load[1][1]
         IN  /\ Len(h.load) < PageLen =>
                  t = [cmd |-> h.cmd, load |-> Append(h.load, <<addr, value % 2>>)]
             /\ Len(h.load) = PageLen =>
                  t = IF value = Byte.reset \/ addr = page_of(first) + PageLen - 1
                      THEN NoOrders ELSE h
<1> DEFINE next == Append(IF h.cmd \in Commands THEN <<>> ELSE h.cmd, <<addr, value>>)
           l == Append(h.load, <<addr, value % 2>>)
           x == [h EXCEPT !.load = l]
           y == IF value = Byte.reset \/ addr = page_of(h.load[1][1]) + PageLen - 1
                THEN NoOrders ELSE h
           z == [h EXCEPT !.cmd = IF next \in Begun THEN next ELSE <<>>]
           t == heard(addr, value, we)
           c == Len(h.load)
<1>1. t = CASE Loading /\ c < PageLen -> x
            [] Loading /\ c = PageLen -> y
            [] ~Loading /\ next = Extended(Byte.programHidden) /\ ~we -> NoOrders
            [] OTHER -> z
  BY DEF heard
<1>2. x = [h EXCEPT !.load = l]
  OBVIOUS
<1>3. c \in Nat /\ PageLen \in Nat
  <2>1. h.load \in Seq(Addr \X Bit)
    OBVIOUS
  <2> QED BY <2>1, LenProperties, Pages
<1> HIDE DEF x, y, z, t, c, next, l
<1>4. x = [cmd |-> h.cmd, load |-> l]
  BY <1>2
<1>5. c < PageLen => c # PageLen
  BY <1>3
<1>6. c < PageLen => t = x
  BY <1>1, <1>5
<1>7. c = PageLen => t = y
  BY <1>1, <1>5
<1> QED BY <1>4, <1>6, <1>7 DEF t, c, l, y

\* A write in a page load is loaded, or gives the load up, or commits it, or nothing; and
\* what it commits is what was loaded.
LEMMA ProgramHeard ==
  ASSUME NEW f, FlashOK(f), f.mode \in Programming, Orders(f, h), NEW a \in Addr,
         f.mode = "ProgramHidden" => a < HiddenSize, NEW value \in Values,
         NEW we \in BOOLEAN, NEW hidden \in BOOLEAN, hidden <=> f.mode = "ProgramHidden"
  PROVE  LET n == program_write(f, a, value, we, hidden)
             base == page_of(h.load[1][1])
             Committed(was, is) ==
               /\ Len(h.load) = PageLen
               /\ \A x \in DOMAIN was :
                    is[x] = IF page_of(x) = base THEN was[x] * LoadedBit(offset_of(x))
                                                 ELSE was[x]
         IN  /\ Orders(n, heard(a, value, we)) /\ n.protect = f.protect
             /\ \/ n.data = f.data
                \/ /\ h.cmd = Short(Byte.program) /\ Committed(f.data, n.data)
                   /\ base < SectorSize => we /\ ~f.protect
             /\ \/ n.hidden = f.hidden
                \/ /\ h.cmd = Extended(Byte.programHidden) /\ Committed(f.hidden, n.hidden)
                   /\ we
<1> DEFINE n == program_write(f, a, value, we, hidden)
           l == h.load
           base == page_of(l[1][1])
           t == heard(a, value, we)
           e == load_byte(f, a, value)
           y == blocked(page_reset(f))
           c == commit_page(f, we, hidden)
<1>1. f \in Flash /\ f.seq = 0 /\ f.prefix = 0
  BY DEF FlashOK
<1>2. /\ h \in [cmd : Seq(BusCycles), load : Seq(Addr \X Bit)] /\ l \in Seq(Addr \X Bit)
      /\ Len(l) = f.loaded /\ (Len(l) > 0 => f.page = base)
      /\ \A o \in 0..PageLen - 1 : LastIs(l, o, f.buf[o])
  BY DEF Orders, Loaded
<1>3. /\ f.mode = "Program" => h.cmd = Short(Byte.program)
      /\ f.mode = "ProgramHidden" =>
           h.cmd = Extended(Byte.programHidden) /\ \A i \in 1..Len(l) : l[i][1] < HiddenSize
      /\ f.mode = "Program" \/ f.mode = "ProgramHidden"
  BY DEF Orders, Programming
<1>4. Loading
  BY <1>3 DEF Loading
<1>5. /\ Len(l) < PageLen => t = [cmd |-> h.cmd, load |-> Append(l, <<a, value % 2>>)]
      /\ Len(l) = PageLen =>
           t = IF value = Byte.reset \/ a = base + PageLen - 1 THEN NoOrders ELSE h
  BY <1>2, <1>4, HeardLoading
<1>6. n = CASE f.loaded < PageLen -> e
            [] f.loaded = PageLen /\ value = Byte.reset -> y
            [] /\ f.loaded = PageLen /\ value # Byte.reset
               /\ f.page = page_of(a) /\ offset_of(a) = PageLen - 1 -> c
            [] OTHER -> f
  BY DEF program_write
<1>7. f.loaded \in 0..PageLen /\ PageLen \in Nat \ {0}
  BY <1>1, ChipFields, Pages
<1>8. CASE f.loaded < PageLen
  <2> DEFINE v == value % 2
             w == <<a, v>>
             m == Append(l, w)
  <2>1. n = e /\ t = [cmd |-> h.cmd, load |-> m]
    BY <1>2, <1>5, <1>6, <1>8
  <2>2. v \in Bit /\ offset_of(a) \in 0..PageLen - 1 /\ page_of(a) # NoPage
        /\ page_of(a) \in Addr
    BY ByteNumbers, Pages
  <2>3. /\ Kept(f, e) /\ e.mode = f.mode /\ e.loaded = f.loaded + 1
        /\ e.page = IF f.page = NoPage THEN page_of(a) ELSE f.page
        /\ e.buf = [f.buf EXCEPT ![offset_of(a)] = v]
    BY <1>1, LoadIs
  <2>4. w \in Addr \X Bit /\ w[1] = a
    BY <2>2
  <2> HIDE DEF w
  <2>5. m \in Seq(Addr \X Bit) /\ Len(m) = Len(l) + 1 /\ m[Len(l) + 1] = w
        /\ \A i \in 1..Len(l) : m[i] = l[i]
    BY <1>2, <2>4, AppendProperties
  <2> HIDE DEF v, m, n, t, e
  <2>6. t \in [cmd : Seq(BusCycles), load : Seq(Addr \X Bit)] /\ t.cmd = h.cmd /\ t.load = m
    BY <1>2, <2>1, <2>5
  <2>7. e.page = page_of(m[1][1])
    <3>1. CASE f.loaded = 0
      <4>1. f.page = NoPage
        BY <3>1 DEF FlashOK
      <4>2. m[1] = w
        BY <1>2, <2>5, <3>1
      <4> QED BY <2>3, <2>4, <4>1, <4>2
    <3>2. CASE f.loaded > 0
      <4>1. f.page = base /\ 1 \in 1..Len(l)
        BY <1>2, <1>7, <3>2
      <4>2. f.page # NoPage
        BY <3>2 DEF FlashOK
      <4> QED BY <2>3, <2>5, <4>1, <4>2
    <3> QED BY <1>7, <3>1, <3>2
  <2>8. ASSUME NEW o \in 0..PageLen - 1 PROVE LastIs(m, o, e.buf[o])
    <3> DEFINE b == f.buf[o]
    <3>1. LastIs(l, o, b)
      BY <1>2
    <3>2. e.buf[o] = IF offset_of(a) = o THEN v ELSE b
      <4>1. f.buf \in [0..PageLen - 1 -> Bit]
        BY <1>1, ChipFields
      <4> QED BY <2>3, <4>1
    <3> HIDE DEF b
    <3>3. LastIs(Append(l, <<a, v>>), o, IF offset_of(a) = o THEN v ELSE b)
      BY <1>2, <2>2, <3>1, LastOn
    <3> QED BY <3>2, <3>3 DEF m, w
  <2>9. Loaded(e, m)
    BY <1>2, <2>3, <2>5, <2>7, <2>8 DEF Loaded
  <2>10. ASSUME f.mode = "ProgramHidden", NEW i \in 1..Len(m) PROVE m[i][1] < HiddenSize
    <3>1. i \in 1..Len(l) \/ i = Len(l) + 1
      <4>1. Len(l) \in Nat
        BY <1>2, <1>7
      <4> QED BY <2>5, <4>1
    <3> QED BY <1>3, <2>4, <2>5, <2>10, <3>1
  <2>11. Orders(e, t)
    BY <1>3, <2>3, <2>6, <2>9, <2>10 DEF Orders
  <2>12. Orders(n, t) /\ n.protect = f.protect /\ n.data = f.data /\ n.hidden = f.hidden
    BY <2>1, <2>3, <2>11 DEF Kept
  <2> QED BY <2>12 DEF n, t
<1>9. CASE f.loaded = PageLen /\ value = Byte.reset
  <2>1. n = y /\ t = NoOrders
    BY <1>2, <1>5, <1>6, <1>7, <1>9
  <2>2. Resting(y) /\ Kept(f, y)
    BY GivenUp
  <2> HIDE DEF n, t, y
  <2>3. Orders(n, t)
    BY <2>1, <2>2, RestingOrders
  <2>4. n.protect = f.protect /\ n.data = f.data /\ n.hidden = f.hidden
    BY <2>1, <2>2 DEF Kept
  <2> QED BY <2>3, <2>4 DEF n, t
<1>10. ASSUME f.loaded = PageLen
       PROVE  /\ f.page = base /\ l[1][1] \in Addr /\ 1 \in 1..Len(l)
              /\ f.page = page_of(a) /\ offset_of(a) = PageLen - 1 <=> a = base + PageLen - 1
  <2>1. 1 \in 1..Len(l) /\ Len(l) > 0
    BY <1>2, <1>7, <1>10
  <2>2. l[1] \in Addr \X Bit
    BY <1>2, <2>1, ElementOfSeq
  <2>3. l[1][1] \in Addr
    BY <2>2
  <2>4. f.page = base
    BY <1>2, <2>1
  <2> DEFINE b == l[1][1]
  <2>5. page_of(b) = page_of(a) /\ offset_of(a) = PageLen - 1 <=> a = page_of(b) + PageLen - 1
    BY <2>3, PageEnd
  <2> QED BY <2>1, <2>3, <2>4, <2>5
<1>11. CASE f.loaded = PageLen /\ value # Byte.reset /\ a = base + PageLen - 1
  <2>1. f.page = page_of(a) /\ offset_of(a) = PageLen - 1 /\ f.page = base
    BY <1>10, <1>11
  <2>2. n = c /\ t = NoOrders
    BY <1>2, <1>5, <1>6, <1>7, <1>11, <2>1
  <2>3. /\ Resting(c) /\ c.protect = f.protect
        /\ \/ c.data = f.data
           \/ /\ ~hidden /\ Masked(f, f.page, f.data, c.data)
              /\ f.page < SectorSize => we /\ ~f.protect
        /\ \/ c.hidden = f.hidden
           \/ hidden /\ we /\ Masked(f, f.page % HiddenSize, f.hidden, c.hidden)
    BY CommitDoes
  <2> HIDE DEF n, t, c
  <2>4. Orders(n, t) /\ n.protect = f.protect
    BY <2>2, <2>3, RestingOrders
  <2>5. \A x \in Addr : f.buf[offset_of(x)] = LoadedBit(offset_of(x))
    <3> TAKE x \in Addr
    <3> DEFINE o == offset_of(x)
               b == f.buf[o]
    <3>1. o \in 0..PageLen - 1
      BY Pages
    <3>2. LastIs(h.load, o, b)
      BY <1>2, <3>1
    <3> HIDE DEF o, b
    <3>3. LoadedBit(o) = b
      BY <3>2, LastBit
    <3> QED BY <3>3 DEF o, b
  <2>6. DOMAIN f.data = Addr /\ DOMAIN f.hidden = 0..HiddenSize - 1
    BY <1>1, ChipFields
  <2>7. \A x \in DOMAIN f.hidden : x \in Addr
    <3>1. ASSUME NEW x \in 0..HiddenSize - 1 PROVE x \in Addr
      BY Pages DEF Addr
    <3> QED BY <2>6, <3>1
  <2>8. Len(h.load) = PageLen
    BY <1>2, <1>11
  <2>9. ASSUME Masked(f, f.page, f.data, c.data)
        PROVE  \A x \in DOMAIN f.data :
                 c.data[x] = IF page_of(x) = base THEN f.data[x] * LoadedBit(offset_of(x))
                                                  ELSE f.data[x]
    BY <2>1, <2>5, <2>6, <2>9 DEF Masked
  <2>10. ASSUME hidden, Masked(f, f.page % HiddenSize, f.hidden, c.hidden)
         PROVE  \A x \in DOMAIN f.hidden :
                  c.hidden[x] = IF page_of(x) = base
                                THEN f.hidden[x] * LoadedBit(offset_of(x))
                                ELSE f.hidden[x]
    <3>1. l[1][1] < HiddenSize
      BY <1>3, <1>10, <1>11, <2>10
    <3>2. f.page % HiddenSize = base
      BY <1>10, <1>11, <2>1, <3>1, HiddenPage
    <3> QED BY <2>5, <2>7, <2>10, <3>2 DEF Masked
  <2>11. ~hidden => h.cmd = Short(Byte.program)
    BY <1>3
  <2>12. hidden => h.cmd = Extended(Byte.programHidden)
    BY <1>3
  <2> QED BY <2>1, <2>2, <2>3, <2>4, <2>8, <2>9, <2>10, <2>11, <2>12 DEF n, t
<1>12. CASE f.loaded = PageLen /\ value # Byte.reset /\ a # base + PageLen - 1
  <2>1. ~(f.page = page_of(a) /\ offset_of(a) = PageLen - 1)
    BY <1>10, <1>12
  <2>2. n = f /\ t = h
    BY <1>2, <1>5, <1>6, <1>7, <1>12, <2>1
  <2> HIDE DEF n, t
  <2>3. Orders(n, t) /\ n.protect = f.protect /\ n.data = f.data /\ n.hidden = f.hidden
    BY <2>2
  <2> QED BY <2>3 DEF n, t
<1> QED BY <1>7, <1>8, <1>9, <1>11, <1>12

-----------------------------------------------------------------------------
(* The two promises, of one write. *)

\* What NothingErasedUnasked says of the chip before and after, and the orders after.
Asked(f, g, t, open) ==
  /\ \A a \in Addr : g.data[a] > f.data[a] =>
       /\ \/ t.cmd = ChipErase
          \/ \E b \in Addrs : sector_of(a) = sector_of(b) /\ t.cmd = SectorErase(b)
       /\ sector_of(a) = 0 => open /\ ~f.protect
  /\ \A a \in DOMAIN f.hidden :
       g.hidden[a] > f.hidden[a] => open /\ t.cmd = Extended(Byte.eraseHidden)
  /\ g.protect # f.protect =>
       open /\ t.cmd = Extended(IF g.protect THEN Byte.protect ELSE Byte.unprotect)

\* What ProgramsWhatWasLoaded says of the chip before and after.
Wrote(f, g, open) ==
  LET Committed(was, is) ==
        /\ Len(h.load) = PageLen
        /\ LET base == page_of(h.load[1][1])
           IN  \A a \in DOMAIN was :
                 is[a] = IF page_of(a) = base THEN was[a] * LoadedBit(offset_of(a))
                                              ELSE was[a]
  IN  /\ (\E a \in Addr : g.data[a] < f.data[a]) =>
           /\ h.cmd = Short(Byte.program) /\ Committed(f.data, g.data)
           /\ page_of(h.load[1][1]) < SectorSize => open /\ ~f.protect
      /\ (\E a \in DOMAIN f.hidden : g.hidden[a] < f.hidden[a]) =>
           /\ h.cmd = Extended(Byte.programHidden) /\ Committed(f.hidden, g.hidden)
           /\ open

\* The bits of the array and of the hidden region.
LEMMA BitsAre ==
  ASSUME NEW f \in Flash
  PROVE  /\ \A a \in Addr : f.data[a] \in {0, 1}
         /\ \A a \in DOMAIN f.hidden : f.hidden[a] \in {0, 1} /\ a \in Addr
         /\ DOMAIN f.data = Addr
<1>1. f.data \in [Addr -> Bit] /\ f.hidden \in [0..HiddenSize - 1 -> Bit]
  BY ChipFields
<1>2. ASSUME NEW a \in 0..HiddenSize - 1 PROVE a \in Addr
  BY Pages DEF Addr
<1> QED BY <1>1, <1>2 DEF Bit

\* Nothing is asked of a write that keeps all.
LEMMA KeptAsked ==
  ASSUME NEW f \in Flash, NEW g, Kept(f, g), NEW t, NEW open
  PROVE  Asked(f, g, t, open) /\ Wrote(f, g, open)
<1>1. g.data = f.data /\ g.hidden = f.hidden /\ g.protect = f.protect
  BY DEF Kept
<1>2. \A a \in Addr : ~(g.data[a] > f.data[a]) /\ ~(g.data[a] < f.data[a])
  BY <1>1, BitsAre
<1>3. \A a \in DOMAIN f.hidden : ~(g.hidden[a] > f.hidden[a]) /\ ~(g.hidden[a] < f.hidden[a])
  BY <1>1, BitsAre
<1>4. Asked(f, g, t, open)
  BY <1>1, <1>2, <1>3 DEF Asked
<1>5. Wrote(f, g, open)
  BY <1>2, <1>3 DEF Wrote
<1> QED BY <1>4, <1>5

\* The loaded bytes are bits.
LEMMA LoadedBits ==
  ASSUME NEW f \in Flash, f.mode \in Programming, Orders(f, h)
  PROVE  \A a \in Addr : LoadedBit(offset_of(a)) \in {0, 1}
<1> TAKE a \in Addr
<1> DEFINE o == offset_of(a)
           b == f.buf[o]
<1>1. o \in 0..PageLen - 1
  BY Pages
<1>2. b \in {0, 1}
  <2>1. f.buf \in [0..PageLen - 1 -> Bit]
    BY ChipFields
  <2> QED BY <1>1, <2>1 DEF Bit
<1>3. LastIs(h.load, o, b)
  BY <1>1 DEF Orders, Loaded
<1> HIDE DEF o, b
<1>4. LoadedBit(o) = b
  BY <1>3, LastBit
<1> QED BY <1>2, <1>4 DEF o

\* A write in a page load.
LEMMA LoadStep ==
  ASSUME NEW f, FlashOK(f), f.mode \in Programming, Orders(f, h), NEW a \in Addr,
         f.mode = "ProgramHidden" => a < HiddenSize, NEW value \in Values,
         NEW we \in BOOLEAN, NEW hidden \in BOOLEAN, hidden <=> f.mode = "ProgramHidden"
  PROVE  LET n == program_write(f, a, value, we, hidden)
             t == heard(a, value, we)
         IN  Orders(n, t) /\ Asked(f, n, t, we) /\ Wrote(f, n, we)
<1> DEFINE n == program_write(f, a, value, we, hidden)
           t == heard(a, value, we)
           base == page_of(h.load[1][1])
           Committed(was, is) ==
             /\ Len(h.load) = PageLen
             /\ \A x \in DOMAIN was :
                  is[x] = IF page_of(x) = base THEN was[x] * LoadedBit(offset_of(x))
                                               ELSE was[x]
<1>1. /\ Orders(n, t) /\ n.protect = f.protect
      /\ \/ n.data = f.data
         \/ /\ h.cmd = Short(Byte.program) /\ Committed(f.data, n.data)
            /\ base < SectorSize => we /\ ~f.protect
      /\ \/ n.hidden = f.hidden
         \/ /\ h.cmd = Extended(Byte.programHidden) /\ Committed(f.hidden, n.hidden)
            /\ we
  BY ProgramHeard
<1>2. f \in Flash
  BY DEF FlashOK
<1>3. \A x, y \in {0, 1} : ~(x * y > x)
  OBVIOUS
<1>4. \A x \in {0, 1} : ~(x > x) /\ ~(x < x)
  OBVIOUS
<1> HIDE DEF n, t
<1>5. \A x \in Addr : ~(n.data[x] > f.data[x])
  <2>1. CASE n.data = f.data
    BY <1>2, <1>4, <2>1, BitsAre
  <2>2. CASE Committed(f.data, n.data)
    <3> TAKE x \in Addr
    <3> DEFINE u == f.data[x]
               v == LoadedBit(offset_of(x))
    <3>1. u \in {0, 1} /\ v \in {0, 1}
      BY <1>2, BitsAre, LoadedBits
    <3>2. n.data[x] = u * v \/ n.data[x] = u
      BY <1>2, <2>2, BitsAre
    <3> HIDE DEF u, v
    <3>3. ~(n.data[x] > u)
      BY <1>3, <1>4, <3>1, <3>2
    <3> QED BY <3>3 DEF u
  <2> QED BY <1>1, <2>1, <2>2
<1>6. \A x \in DOMAIN f.hidden : ~(n.hidden[x] > f.hidden[x])
  <2>1. CASE n.hidden = f.hidden
    BY <1>2, <1>4, <2>1, BitsAre
  <2>2. CASE Committed(f.hidden, n.hidden)
    <3> TAKE x \in DOMAIN f.hidden
    <3> DEFINE u == f.hidden[x]
               v == LoadedBit(offset_of(x))
    <3>1. u \in {0, 1} /\ v \in {0, 1}
      BY <1>2, BitsAre, LoadedBits
    <3>2. n.hidden[x] = u * v \/ n.hidden[x] = u
      BY <2>2
    <3> HIDE DEF u, v
    <3>3. ~(n.hidden[x] > u)
      BY <1>3, <1>4, <3>1, <3>2
    <3> QED BY <3>3 DEF u
  <2> QED BY <1>1, <2>1, <2>2
<1>7. Asked(f, n, t, we)
  BY <1>1, <1>5, <1>6 DEF Asked
<1>8. Wrote(f, n, we)
  <2>1. ASSUME NEW x \in Addr, n.data[x] < f.data[x] PROVE n.data # f.data
    BY <1>2, <1>4, <2>1, BitsAre
  <2>2. ASSUME NEW x \in DOMAIN f.hidden, n.hidden[x] < f.hidden[x] PROVE n.hidden # f.hidden
    BY <1>2, <1>4, <2>2, BitsAre
  <2> QED BY <1>1, <2>1, <2>2 DEF Wrote
<1> QED BY <1>1, <1>7, <1>8 DEF n, t

\* A write of the command machine.
LEMMA CommandStep ==
  ASSUME NEW f, FlashOK(f), f.busy = 0, f.mode \notin Programming, Orders(f, h),
         NEW addr \in Addrs, NEW value \in Values, NEW we \in BOOLEAN
  PROVE  LET n == command_write(f, addr, value, we)
             t == heard(addr, value, we)
         IN  Orders(n, t) /\ Asked(f, n, t, we) /\ Wrote(f, n, we)
<1> DEFINE n == command_write(f, addr, value, we)
           w == <<addr, value>>
           t == heard(addr, value, we)
           p == f.prefix
<1>1. /\ Orders(n, t)
      /\ f.seq = 2 /\ p # 0 /\ w \in Ending(p) /\ Long(p, w) # Extended(Byte.programHidden)
           => t.cmd = Long(p, w)
  BY HeardCommand
<1>2. /\ f.seq = 2 => Does(f, n, w, we)
      /\ f.seq # 2 => Kept(f, n)
  BY CommandDoes
<1>3. f \in Flash
  BY DEF FlashOK
<1>4. /\ w = Cycle1(Byte.chip) \/ (\E b \in Addrs : w = <<b, Byte.sector>>)
           => w \in Ending(Byte.erase)
      /\ \A v \in {Byte.eraseHidden, Byte.unprotect, Byte.protect} :
           w = Cycle1(v) => w \in Ending(Byte.extended)
  <2>1. /\ Ending(Byte.erase) = {<<x, Byte.sector>> : x \in Addrs} \union {Cycle1(Byte.chip)}
        /\ Ending(Byte.extended) = {Cycle1(v) : v \in {Byte.eraseHidden, Byte.programHidden,
                                                     Byte.unprotect, Byte.protect}}
    BY DEF Ending, Byte
  <2> HIDE DEF w
  <2> QED BY <2>1
<1>5. /\ Byte.erase # 0 /\ Byte.extended # 0 /\ Byte.erase # Byte.extended
      /\ Byte.erase \in PrefixBytes /\ Byte.extended \in PrefixBytes
      /\ Byte.programHidden \notin {Byte.eraseHidden, Byte.unprotect, Byte.protect}
  BY DEF Byte, PrefixBytes
<1> HIDE DEF n, w, t, p
<1>6. CASE f.seq # 2
  <2>1. Kept(f, n)
    BY <1>2, <1>6
  <2> QED BY <1>1, <1>3, <2>1, KeptAsked DEF n, t
<1>7. CASE f.seq = 2
  <2>1. ASSUME p = Byte.erase, w \in Ending(Byte.erase) PROVE t.cmd = Long(Byte.erase, w)
    <3>1. Long(p, w) # Extended(Byte.programHidden)
      BY <1>5, <2>1, ProgramApart
    <3> QED BY <1>1, <1>5, <1>7, <2>1, <3>1
  <2>2. ASSUME NEW v \in {Byte.eraseHidden, Byte.unprotect, Byte.protect},
               p = Byte.extended, w = Cycle1(v)
        PROVE  t.cmd = Extended(v)
    <3>1. w \in Ending(p)
      BY <1>4, <2>2
    <3>2. w # Cycle1(Byte.programHidden)
      BY <1>5, <2>2, BytesApart
    <3>3. Long(p, w) # Extended(Byte.programHidden)
      BY <1>5, <2>2, <3>1, <3>2, ProgramApart
    <3>4. t.cmd = Long(p, w)
      BY <1>1, <1>5, <1>7, <2>2, <3>1, <3>3
    <3> QED BY <2>2, <3>4 DEF Extended
  <2>3. Does(f, n, w, we)
    BY <1>2, <1>7
  <2>4. ASSUME NEW a \in Addr
        PROVE  /\ ~(n.data[a] < f.data[a])
               /\ n.data[a] > f.data[a] =>
                    /\ \/ t.cmd = ChipErase
                       \/ \E b \in Addrs : sector_of(a) = sector_of(b) /\ t.cmd = SectorErase(b)
                    /\ sector_of(a) = 0 => we /\ ~f.protect
    <3> DEFINE u == f.data[a]
               v == n.data[a]
    <3>1. u \in {0, 1}
      BY <1>3, BitsAre
    <3>2. \/ v = u
          \/ /\ v = 1 /\ p = Byte.erase
             /\ \/ w = Cycle1(Byte.chip)
                \/ \E b \in Addrs : w = <<b, Byte.sector>> /\ sector_of(a) = sector_of(b)
             /\ sector_of(a) = 0 => we /\ ~f.protect
      BY <2>3 DEF Does, p
    <3> HIDE DEF u, v
    <3>3. CASE v = u
      <4>1. ~(v < u) /\ ~(v > u)
        BY <3>1, <3>3
      <4> QED BY <4>1 DEF u, v
    <3>4. CASE v # u
      <4>1. /\ v = 1 /\ p = Byte.erase
            /\ \/ w = Cycle1(Byte.chip)
               \/ \E b \in Addrs : w = <<b, Byte.sector>> /\ sector_of(a) = sector_of(b)
            /\ sector_of(a) = 0 => we /\ ~f.protect
        BY <3>2, <3>4
      <4>2. ~(v < u)
        BY <3>1, <4>1
      <4>3. t.cmd = Long(Byte.erase, w)
        BY <1>4, <2>1, <4>1
      <4>4. \/ t.cmd = ChipErase
            \/ \E b \in Addrs : sector_of(a) = sector_of(b) /\ t.cmd = SectorErase(b)
        BY <4>1, <4>3 DEF ChipErase, SectorErase
      <4> QED BY <4>1, <4>2, <4>4 DEF u, v
    <3> QED BY <3>3, <3>4
  <2>5. ASSUME NEW a \in DOMAIN f.hidden
        PROVE  /\ ~(n.hidden[a] < f.hidden[a])
               /\ n.hidden[a] > f.hidden[a] => we /\ t.cmd = Extended(Byte.eraseHidden)
    <3> DEFINE u == f.hidden[a]
               v == n.hidden[a]
    <3>1. u \in {0, 1}
      BY <1>3, BitsAre
    <3>2. \/ v = u
          \/ v = 1 /\ p = Byte.extended /\ w = Cycle1(Byte.eraseHidden) /\ we
      BY <2>3 DEF Does, p
    <3> HIDE DEF u, v
    <3>3. CASE v = u
      <4>1. ~(v < u) /\ ~(v > u)
        BY <3>1, <3>3
      <4> QED BY <4>1 DEF u, v
    <3>4. CASE v # u
      <4>1. v = 1 /\ p = Byte.extended /\ w = Cycle1(Byte.eraseHidden) /\ we
        BY <3>2, <3>4
      <4>2. ~(v < u)
        BY <3>1, <4>1
      <4>3. t.cmd = Extended(Byte.eraseHidden)
        BY <2>2, <4>1
      <4> QED BY <4>1, <4>2, <4>3 DEF u, v
    <3> QED BY <3>3, <3>4
  <2>6. n.protect # f.protect =>
          we /\ t.cmd = Extended(IF n.protect THEN Byte.protect ELSE Byte.unprotect)
    <3> DEFINE v == IF n.protect THEN Byte.protect ELSE Byte.unprotect
    <3>1. v \in {Byte.eraseHidden, Byte.unprotect, Byte.protect}
      OBVIOUS
    <3>2. n.protect # f.protect => p = Byte.extended /\ we /\ w = Cycle1(v)
      BY <2>3 DEF Does, p
    <3> HIDE DEF v
    <3>3. n.protect # f.protect => we /\ t.cmd = Extended(v)
      BY <2>2, <3>1, <3>2
    <3> QED BY <3>3 DEF v
  <2>7. Asked(f, n, t, we)
    BY <2>4, <2>5, <2>6 DEF Asked
  <2>8. Wrote(f, n, we)
    BY <2>4, <2>5 DEF Wrote
  <2> QED BY <1>1, <2>7, <2>8 DEF n, t
<1> QED BY <1>6, <1>7

-----------------------------------------------------------------------------
(* The state machine. *)

\* The two mappers of TypeOK.
Clock(m) == m \in [kind : {"Mbc3"}, rtc : RtcState]
Chip(m) == m \in [kind : {"Mbc6"}, flash_we : BOOLEAN, flash : Flash] /\ FlashOK(m.flash)

\* TypeOK, of any mapper.
MapperOK(m) ==
  \/ /\ m.kind = "Mbc3"
     /\ m \in [kind : {"Mbc3"}, rtc : RtcState]
  \/ /\ m.kind = "Mbc6"
     /\ m \in [kind : {"Mbc6"}, flash_we : BOOLEAN, flash : Flash]
     /\ LET f == m.flash
        IN  /\ f.busy > 0 => f.mode = "Status" /\ f.seq = 0
            /\ f.mode \notin Programming => f = page_reset(f)
            /\ f.mode \in Programming => f.seq = 0 /\ f.prefix = 0
            /\ (f.page = NoPage) = (f.loaded = 0)

\* It is a clock or a chip.
LEMMA MapperIs ==
  ASSUME NEW m
  PROVE  MapperOK(m) <=> Clock(m) \/ Chip(m)
<1>1. Clock(m) => m.kind = "Mbc3"
  BY DEF Clock
<1>2. Chip(m) => m.kind = "Mbc6"
  BY DEF Chip
<1>3. m \in [kind : {"Mbc6"}, flash_we : BOOLEAN, flash : Flash] => m.flash \in Flash
  OBVIOUS
<1> QED BY <1>1, <1>2, <1>3 DEF MapperOK, Clock, Chip, FlashOK

\* A clock as a record.
LEMMA ClockIs ==
  ASSUME NEW m
  PROVE  /\ Clock(m) => /\ m.kind = "Mbc3" /\ m.rtc \in RtcState
                        /\ \A r \in RtcState : Clock([m EXCEPT !.rtc = r])
         /\ \A r \in RtcState : Clock([kind |-> "Mbc3", rtc |-> r])
BY DEF Clock

\* A chip as a record.
LEMMA ChipIs ==
  ASSUME NEW m
  PROVE  /\ Chip(m) => /\ m.kind = "Mbc6" /\ FlashOK(m.flash) /\ m.flash_we \in BOOLEAN
                       /\ m = [kind |-> "Mbc6", flash_we |-> m.flash_we, flash |-> m.flash]
         /\ \A f, w : FlashOK(f) /\ w \in BOOLEAN =>
                        Chip([kind |-> "Mbc6", flash_we |-> w, flash |-> f])
<1>1. \A f, w : FlashOK(f) /\ w \in BOOLEAN =>
                  Chip([kind |-> "Mbc6", flash_we |-> w, flash |-> f])
  <2> TAKE f, w
  <2> HAVE FlashOK(f) /\ w \in BOOLEAN
  <2>1. f \in Flash
    BY DEF FlashOK
  <2> QED BY <2>1 DEF Chip
<1>2. Chip(m) => /\ m.kind = "Mbc6" /\ FlashOK(m.flash) /\ m.flash_we \in BOOLEAN
                 /\ m = [kind |-> "Mbc6", flash_we |-> m.flash_we, flash |-> m.flash]
  BY DEF Chip
<1> QED BY <1>1, <1>2

\* The clock begins in range.
LEMMA ClockStarts == NewRtc \in RtcState
<1>1. Midnight \in Regs
  <2>1. 0 \in 0..Width["s"] - 1 /\ 0 \in 0..Width["m"] - 1 /\ 0 \in 0..Width["h"] - 1
        /\ 0 \in 0..DayLow - 1
    <3>1. Width["s"] \in Nat \ {0} /\ Width["m"] \in Nat \ {0} /\ Width["h"] \in Nat \ {0}
      BY Widths DEF Fields
    <3> QED BY <3>1, Widths
  <2> QED BY <2>1 DEF Midnight, Regs
<1>2. 0 \in 0..CyclesPerSecond - 1
  BY Widths
<1> QED BY <1>1, <1>2 DEF NewRtc, RtcState, Latches

\* The writes of the clock keep it in range.
LEMMA ClockWrites ==
  ASSUME NEW r \in RtcState
  PROVE  /\ \A v \in Latches : write_latch(r, v) \in RtcState
         /\ \A i : \A g \in Regs : write_reg(r, i, g) \in RtcState
         /\ \A own \in BOOLEAN : rtc_reloaded(r, own) \in RtcState
<1>1. 0 \in 0..CyclesPerSecond - 1 /\ 255 \in Latches
  BY Widths DEF Latches
<1>2. ASSUME NEW v \in Latches PROVE write_latch(r, v) \in RtcState
  <2> DEFINE l == IF r.latch_prev = 0 /\ v = 1 THEN r.regs ELSE r.latched
             n == write_latch(r, v)
  <2>1. n = [r EXCEPT !.latched = l, !.latch_prev = v]
    BY DEF write_latch
  <2>2. l \in Regs
    BY DEF RtcState
  <2> HIDE DEF l, n
  <2>3. n \in RtcState
    BY <2>1, <2>2 DEF RtcState
  <2> QED BY <2>3 DEF n
<1>3. ASSUME NEW i, NEW g \in Regs PROVE write_reg(r, i, g) \in RtcState
  <2> DEFINE z == IF i = "s" THEN 0 ELSE r.subsec
             n == write_reg(r, i, g)
  <2>1. n = [r EXCEPT !.regs = g, !.subsec = z]
    BY DEF write_reg
  <2>2. z \in 0..CyclesPerSecond - 1
    <3>1. r.subsec \in 0..CyclesPerSecond - 1
      BY DEF RtcState
    <3> QED BY <1>1, <3>1
  <2> HIDE DEF z, n
  <2>3. n \in RtcState
    BY <2>1, <2>2 DEF RtcState
  <2> QED BY <2>3 DEF n
<1>4. ASSUME NEW own \in BOOLEAN PROVE rtc_reloaded(r, own) \in RtcState
  <2> DEFINE n == [r EXCEPT !.subsec = 0, !.latch_prev = 255]
  <2>1. n \in RtcState
    BY <1>1 DEF RtcState
  <2> QED BY <2>1 DEF rtc_reloaded
<1> QED BY <1>2, <1>3, <1>4

\* TypeOK is inductive.
THEOREM CartridgeInductive ==
  /\ Init => TypeOK
  /\ TypeOK /\ [Next]_vars => TypeOK'
<1>1. Init => TypeOK
  <2> SUFFICES ASSUME Init PROVE TypeOK
    OBVIOUS
  <2> SUFFICES MapperOK(mapper)
    BY DEF TypeOK, MapperOK
  <2>1. Clock([kind |-> "Mbc3", rtc |-> NewRtc])
    BY ClockStarts, ClockIs
  <2>2. Chip([kind |-> "Mbc6", flash_we |-> FALSE, flash |-> NewFlash])
    BY ReloadTyped, ChipIs
  <2> QED BY <2>1, <2>2, MapperIs DEF Init
<1>2. TypeOK /\ [Next]_vars => TypeOK'
  <2> SUFFICES ASSUME TypeOK, [Next]_vars PROVE Clock(mapper') \/ Chip(mapper')
    <3>1. MapperOK(mapper') <=> Clock(mapper') \/ Chip(mapper')
      BY MapperIs
    <3> QED BY <3>1 DEF TypeOK, MapperOK
  <2>1. Clock(mapper) \/ Chip(mapper)
    <3>1. MapperOK(mapper) <=> Clock(mapper) \/ Chip(mapper)
      BY MapperIs
    <3> QED BY <3>1 DEF TypeOK, MapperOK
  <2>2. Clock(mapper) => mapper.kind = "Mbc3" /\ mapper.rtc \in RtcState
    BY ClockIs
  <2>3. Chip(mapper) => mapper.kind = "Mbc6" /\ FlashOK(mapper.flash)
                        /\ mapper.flash_we \in BOOLEAN
    BY ChipIs
  <2>4. ASSUME Clock(mapper), NEW r \in RtcState PROVE Clock([mapper EXCEPT !.rtc = r])
    BY <2>4, ClockIs
  <2>5. ASSUME Chip(mapper), NEW f, FlashOK(f), NEW w \in BOOLEAN
        PROVE  /\ Chip([mapper EXCEPT !.flash = f]) /\ Chip([mapper EXCEPT !.flash_we = w])
               /\ Chip([mapper EXCEPT !.flash_we = w, !.flash = f])
    <3> DEFINE W == mapper.flash_we
               F == mapper.flash
               n == [mapper EXCEPT !.flash = f]
               k == [mapper EXCEPT !.flash_we = w]
               o == [mapper EXCEPT !.flash_we = w, !.flash = f]
    <3>1. mapper = [kind |-> "Mbc6", flash_we |-> W, flash |-> F] /\ W \in BOOLEAN /\ FlashOK(F)
      BY <2>5, ChipIs
    <3>2. mapper \in [kind : {"Mbc6"}, flash_we : BOOLEAN, flash : {F}]
      <4> HIDE DEF W, F
      <4> QED BY <3>1
    <3>3. n = [mapper EXCEPT !.flash = f] /\ k = [mapper EXCEPT !.flash_we = w]
          /\ o = [mapper EXCEPT !.flash_we = w, !.flash = f]
      OBVIOUS
    <3> HIDE DEF W, F, n, k, o
    <3>4. /\ n = [kind |-> "Mbc6", flash_we |-> W, flash |-> f]
          /\ k = [kind |-> "Mbc6", flash_we |-> w, flash |-> F]
          /\ o = [kind |-> "Mbc6", flash_we |-> w, flash |-> f]
      BY <3>1, <3>2, <3>3
    <3>5. Chip(n) /\ Chip(k) /\ Chip(o)
      BY <2>5, <3>1, <3>4, ChipIs
    <3> QED BY <3>5 DEF n, k, o
  <2>6. ASSUME NEW addr \in Addrs, NEW value \in Values, FlashWrite(addr, value)
        PROVE  Chip(mapper')
    <3>1. mapper.kind = "Mbc6"
      BY <2>6 DEF FlashWrite
    <3>2. Chip(mapper)
      BY <2>1, <2>2, <3>1
    <3> DEFINE f == flash_write(mapper.flash, addr, value, mapper.flash_we)
    <3>3. mapper' = [mapper EXCEPT !.flash = f]
      BY <2>6 DEF FlashWrite
    <3>4. addr \in Addr
      BY InputAssumption
    <3>5. FlashOK(f)
      BY <2>3, <3>2, <3>4, WriteTyped
    <3> HIDE DEF f
    <3>6. mapper.flash_we \in BOOLEAN
      BY <2>3, <3>2
    <3> QED BY <2>5, <3>2, <3>3, <3>5, <3>6
  <2>7. ASSUME NEW value \in BOOLEAN, WriteEnable(value)
        PROVE  Chip(mapper')
    <3>1. mapper.kind = "Mbc6" /\ mapper' = [mapper EXCEPT !.flash_we = value]
      BY <2>7 DEF WriteEnable
    <3>2. Chip(mapper) /\ FlashOK(mapper.flash)
      BY <2>1, <2>2, <2>3, <3>1
    <3> QED BY <2>5, <3>1, <3>2
  <2>8. ASSUME NEW i \in {"s", "m", "h", "dl", "dh"}, RtcWrite(i)
        PROVE  Clock(mapper')
    <3>1. PICK regs \in OneRegister(mapper.rtc.regs, i) :
            mapper' = [mapper EXCEPT !.rtc = write_reg(@, i, regs)]
      BY <2>8 DEF RtcWrite
    <3>2. Clock(mapper)
      BY <2>1, <2>3, <2>8 DEF RtcWrite
    <3>3. regs \in Regs
      BY DEF OneRegister
    <3> DEFINE r == write_reg(mapper.rtc, i, regs)
    <3>4. r \in RtcState
      BY <2>2, <3>2, <3>3, ClockWrites
    <3>5. mapper' = [mapper EXCEPT !.rtc = r]
      BY <3>1
    <3> HIDE DEF r
    <3> QED BY <2>4, <3>2, <3>4, <3>5
  <2>9. ASSUME NEW value \in Latches, LatchWrite(value)
        PROVE  Clock(mapper')
    <3> DEFINE r == write_latch(mapper.rtc, value)
    <3>1. mapper.kind = "Mbc3" /\ mapper' = [mapper EXCEPT !.rtc = r]
      BY <2>9 DEF LatchWrite
    <3>2. Clock(mapper)
      BY <2>1, <2>3, <3>1
    <3>3. r \in RtcState
      BY <2>2, <3>2, ClockWrites
    <3> HIDE DEF r
    <3> QED BY <2>4, <3>1, <3>2, <3>3
  <2>10. ASSUME NEW t_cycles \in Chunks, tick_time(t_cycles)
         PROVE  Clock(mapper') \/ Chip(mapper')
    <3>1. t_cycles \in Nat
      BY InputAssumption
    <3> DEFINE r == tick_cycles(mapper.rtc, t_cycles)
               f == flash_tick(mapper.flash, t_cycles)
    <3>2. mapper' = IF mapper.kind = "Mbc3" THEN [mapper EXCEPT !.rtc = r]
                                            ELSE [mapper EXCEPT !.flash = f]
      BY <2>10 DEF tick_time
    <3>3. Clock(mapper) => r \in RtcState
      BY <2>2, <3>1, ClockTyped
    <3>4. Chip(mapper) => FlashOK(f) /\ FALSE \in BOOLEAN
      BY <2>3, <3>1, TickTyped
    <3> HIDE DEF r, f
    <3>5. CASE Clock(mapper)
      BY <2>2, <2>4, <3>2, <3>3, <3>5
    <3>6. CASE Chip(mapper)
      <4>1. mapper' = [mapper EXCEPT !.flash = f]
        BY <2>3, <3>2, <3>6
      <4> QED BY <2>5, <3>4, <3>6, <4>1
    <3> QED BY <2>1, <3>5, <3>6
  <2>11. ASSUME NEW own \in BOOLEAN, PowerCycle(own)
         PROVE  Clock(mapper') \/ Chip(mapper')
    <3> DEFINE r == rtc_reloaded(mapper.rtc, own)
               f == flash_reloaded(mapper.flash)
    <3>1. mapper' = IF mapper.kind = "Mbc3" THEN [mapper EXCEPT !.rtc = r]
                    ELSE [mapper EXCEPT !.flash_we = FALSE, !.flash = f]
      BY <2>11 DEF PowerCycle
    <3>2. Clock(mapper) => r \in RtcState
      BY <2>2, ClockWrites
    <3>3. Chip(mapper) => FlashOK(f) /\ FALSE \in BOOLEAN
      BY <2>3, ReloadTyped DEF FlashOK
    <3> HIDE DEF r, f
    <3>4. CASE Clock(mapper)
      BY <2>2, <2>4, <3>1, <3>2, <3>4
    <3>5. CASE Chip(mapper)
      <4>1. mapper' = [mapper EXCEPT !.flash_we = FALSE, !.flash = f]
        BY <2>3, <3>1, <3>5
      <4> QED BY <2>5, <3>3, <3>5, <4>1
    <3> QED BY <2>1, <3>4, <3>5
  <2>12. CASE UNCHANGED vars
    <3>1. mapper' = mapper
      BY <2>12 DEF vars
    <3> QED BY <2>1, <3>1
  <2> QED BY <2>6, <2>7, <2>8, <2>9, <2>10, <2>11, <2>12 DEF Next
<1> QED BY <1>1, <1>2

\* Every field of the live mapper stays in its range: what indexes the page buffer and the
\* array (mbc6.rs:94-138), and the widths of the clock's counters (rtc.rs:51-77).
THEOREM CartridgeTypeCorrect == Spec => []TypeOK
BY CartridgeInductive, PTL DEF Spec

\* A clock in its ranges keeps time.
LEMMA KeepsTime == TypeOK => ClockKeepsTime
<1> SUFFICES ASSUME TypeOK, mapper.kind = "Mbc3"
             PROVE  LET r == mapper.rtc
                        later(t) == tick_cycles(r, t)
                    IN  /\ \A a, b \in Chunks : tick_cycles(later(a), b) = later(a + b)
                        /\ InRange(r.regs) /\ ~r.regs.halt =>
                             \A t \in Chunks :
                               /\ Cycle(later(t)) = (Cycle(r) + t) % Period
                               /\ InRange(later(t).regs)
                               /\ later(t).regs.carry = (r.regs.carry \/ Cycle(r) + t >= Period)
  BY DEF ClockKeepsTime
<1>1. Clock(mapper)
  <2>1. MapperOK(mapper) <=> Clock(mapper) \/ Chip(mapper)
    BY MapperIs
  <2>2. Chip(mapper) => mapper.kind = "Mbc6"
    BY ChipIs
  <2> QED BY <2>1, <2>2 DEF TypeOK, MapperOK
<1> DEFINE r == mapper.rtc
<1>2. r \in RtcState
  BY <1>1, ClockIs
<1>3. \A t \in Chunks : t \in Nat
  BY InputAssumption
<1> HIDE DEF r
<1>4. \A a, b \in Chunks : tick_cycles(tick_cycles(r, a), b) = tick_cycles(r, a + b)
  BY <1>2, <1>3, Sliced
<1>5. InRange(r.regs) /\ ~r.regs.halt =>
        \A t \in Chunks :
          /\ Cycle(tick_cycles(r, t)) = (Cycle(r) + t) % Period
          /\ InRange(tick_cycles(r, t).regs)
          /\ tick_cycles(r, t).regs.carry = (r.regs.carry \/ Cycle(r) + t >= Period)
  BY <1>2, <1>3, CyclesUp
<1> QED BY <1>4, <1>5 DEF r

\* However emulated time is cut into calls of tick_time the clock that results is the
\* same, and while its counters are in range and it runs it counts T-cycles like one long
\* counter, the carry set for good when the days overflow (rtc.rs:40-77).
THEOREM KeepingTime == Spec => []ClockKeepsTime
<1>1. Spec => []TypeOK
  BY CartridgeTypeCorrect
<1>2. TypeOK => ClockKeepsTime
  BY KeepsTime
<1> QED BY <1>1, <1>2, PTL

-----------------------------------------------------------------------------
(* The two promises, of the cartridge. *)

\* The orders told are those that the chip has in hand.
OrdersOK == IsMbc6 => Orders(mapper.flash, h)

\* Nothing in hand but what mode, unlock, prefix and page buffer tell.
LEMMA SameOrders ==
  ASSUME NEW f, NEW g, NEW t, Orders(f, t), g.mode = f.mode, g.seq = f.seq,
         g.prefix = f.prefix, g.page = f.page, g.loaded = f.loaded, g.buf = f.buf
  PROVE  Orders(g, t)
BY DEF Orders, Loaded

\* Every write of the chip.
LEMMA WriteStep ==
  ASSUME NEW f, FlashOK(f), Orders(f, h), NEW addr \in Addrs, NEW value \in Values,
         NEW we \in BOOLEAN
  PROVE  LET n == flash_write(f, addr, value, we)
             t == IF f.busy > 0 THEN h
                  ELSE heard(IF f.mode = "ProgramHidden" THEN addr % HiddenSize ELSE addr,
                             value, we)
         IN  Orders(n, t) /\ Asked(f, n, t, we) /\ Wrote(f, n, we)
<1> DEFINE n == flash_write(f, addr, value, we)
           a == addr % HiddenSize
           t == IF f.busy > 0 THEN h
                ELSE heard(IF f.mode = "ProgramHidden" THEN a ELSE addr, value, we)
           p == program_write(f, addr, value, we, FALSE)
           q == program_write(f, a, value, we, TRUE)
           c == command_write(f, addr, value, we)
<1>1. n = CASE f.busy > 0 -> f
            [] f.busy = 0 /\ f.mode = "Program" -> p
            [] f.busy = 0 /\ f.mode = "ProgramHidden" -> q
            [] OTHER -> c
  BY DEF flash_write
<1>2. f \in Flash /\ f.busy \in Nat
  BY ChipFields DEF FlashOK
<1>3. addr \in Addr /\ a \in Addr /\ a < HiddenSize
  BY InputAssumption, Pages, HiddenPage
<1>t. /\ f.busy > 0 => t = h
      /\ ~(f.busy > 0) => t = heard(IF f.mode = "ProgramHidden" THEN a ELSE addr, value, we)
  OBVIOUS
<1>n. (f.busy > 0 => ~(f.busy = 0)) /\ (f.busy = 0 => ~(f.busy > 0))
  BY <1>2
<1> HIDE DEF n, t, p, q, c, a
<1>4. CASE f.busy > 0
  <2>1. n = f /\ t = h
    BY <1>1, <1>t, <1>n, <1>4
  <2>2. Kept(f, n)
    BY <2>1 DEF Kept
  <2>3. Asked(f, n, t, we) /\ Wrote(f, n, we)
    BY <1>2, <2>2, KeptAsked
  <2> QED BY <2>1, <2>3 DEF n, t, a
<1>5. CASE f.busy = 0 /\ f.mode = "Program"
  <2>1. n = p /\ t = heard(addr, value, we)
    BY <1>1, <1>t, <1>n, <1>5
  <2>2. f.mode \in Programming /\ f.mode # "ProgramHidden"
    BY <1>5 DEF Programming
  <2>3. Orders(p, heard(addr, value, we)) /\ Asked(f, p, heard(addr, value, we), we)
        /\ Wrote(f, p, we)
    BY <1>3, <2>2, LoadStep DEF p
  <2> QED BY <2>1, <2>3 DEF n, t, a
<1>6. CASE f.busy = 0 /\ f.mode = "ProgramHidden"
  <2>1. n = q /\ t = heard(a, value, we)
    BY <1>1, <1>t, <1>n, <1>6
  <2>2. f.mode \in Programming
    BY <1>6 DEF Programming
  <2>3. Orders(q, heard(a, value, we)) /\ Asked(f, q, heard(a, value, we), we)
        /\ Wrote(f, q, we)
    BY <1>3, <1>6, <2>2, LoadStep DEF q
  <2> QED BY <2>1, <2>3 DEF n, t, a
<1>7. CASE f.busy = 0 /\ f.mode # "Program" /\ f.mode # "ProgramHidden"
  <2>1. n = c /\ t = heard(addr, value, we)
    BY <1>1, <1>t, <1>n, <1>7
  <2>2. f.mode \notin Programming
    BY <1>7 DEF Programming
  <2>3. Orders(c, heard(addr, value, we)) /\ Asked(f, c, heard(addr, value, we), we)
        /\ Wrote(f, c, we)
    BY <1>7, <2>2, CommandStep DEF c
  <2> QED BY <2>1, <2>3 DEF n, t, a
<1>8. f.busy > 0 \/ f.busy = 0
  BY <1>2
<1> QED BY <1>4, <1>5, <1>6, <1>7, <1>8

\* Time and a new session keep what is stored.
LEMMA TickIs ==
  ASSUME NEW f \in Flash, NEW t
  PROVE  LET n == flash_tick(f, t)
         IN  /\ Kept(f, n) /\ n.mode = f.mode /\ n.seq = f.seq /\ n.prefix = f.prefix
             /\ n.page = f.page /\ n.loaded = f.loaded /\ n.buf = f.buf
<1> DEFINE y == IF f.busy > t THEN f.busy - t ELSE 0
           n == flash_tick(f, t)
<1>1. n = [f EXCEPT !.busy = y]
  BY DEF flash_tick
<1> HIDE DEF y, n
<1>2. n = [data |-> f.data, hidden |-> f.hidden, mode |-> f.mode, seq |-> f.seq,
           prefix |-> f.prefix, protect |-> f.protect, buf |-> f.buf, page |-> f.page,
           loaded |-> f.loaded, busy |-> y]
  BY <1>1 DEF Flash
<1> QED BY <1>2 DEF n, Kept

\* A chip of a new session keeps what is stored, and has nothing in hand.
LEMMA ReloadIs ==
  ASSUME NEW f \in Flash
  PROVE  Kept(f, flash_reloaded(f)) /\ Resting(flash_reloaded(f)) /\ Resting(NewFlash)
<1> DEFINE x == f.data
           y == f.hidden
           z == f.protect
           n == flash_reloaded(f)
           N == NewFlash
<1>1. N \in Flash
  BY ReloadTyped DEF FlashOK
<1>2. N.seq = 0 /\ N.prefix = 0 /\ N.mode = "Read"
  BY DEF NewFlash
<1>3. n = [N EXCEPT !.data = x, !.hidden = y, !.protect = z]
  BY DEF flash_reloaded
<1> HIDE DEF n, N, x, y, z
<1>4. n = [data |-> x, hidden |-> y, mode |-> N.mode, seq |-> N.seq,
           prefix |-> N.prefix, protect |-> z, buf |-> N.buf,
           page |-> N.page, loaded |-> N.loaded, busy |-> N.busy]
  BY <1>1, <1>3 DEF Flash
<1>5. n.data = x /\ n.hidden = y /\ n.protect = z /\ n.seq = 0 /\ n.prefix = 0
      /\ n.mode = "Read"
  BY <1>2, <1>4
<1>6. "Read" \notin Programming
  BY DEF Programming
<1> QED BY <1>2, <1>5, <1>6 DEF Kept, Resting, n, N, x, y, z

\* A cartridge stays what it is.
LEMMA KindKept ==
  ASSUME TypeOK, [Next]_vars, ~IsMbc6
  PROVE  mapper'.kind # "Mbc6"
<1>1. Clock(mapper)
  <2>1. MapperOK(mapper) <=> Clock(mapper) \/ Chip(mapper)
    BY MapperIs
  <2>2. Chip(mapper) => mapper.kind = "Mbc6"
    BY ChipIs
  <2> QED BY <2>1, <2>2 DEF TypeOK, MapperOK, IsMbc6
<1>2. mapper.kind = "Mbc3" /\ mapper \in [kind : {"Mbc3"}, rtc : RtcState]
  BY <1>1 DEF Clock
<1>3. \A r : [mapper EXCEPT !.rtc = r].kind = "Mbc3"
  BY <1>2
<1>4. ASSUME NEW i \in {"s", "m", "h", "dl", "dh"}, RtcWrite(i) PROVE mapper'.kind = "Mbc3"
  <2>1. PICK regs \in OneRegister(mapper.rtc.regs, i) :
          mapper' = [mapper EXCEPT !.rtc = write_reg(@, i, regs)]
    BY <1>4 DEF RtcWrite
  <2> DEFINE r == write_reg(mapper.rtc, i, regs)
  <2>2. mapper' = [mapper EXCEPT !.rtc = r]
    BY <2>1
  <2> HIDE DEF r
  <2> QED BY <1>3, <2>2
<1>5. ASSUME NEW value \in Latches, LatchWrite(value) PROVE mapper'.kind = "Mbc3"
  <2> DEFINE r == write_latch(mapper.rtc, value)
  <2>1. mapper' = [mapper EXCEPT !.rtc = r]
    BY <1>5 DEF LatchWrite
  <2> HIDE DEF r
  <2> QED BY <1>3, <2>1
<1>6. ASSUME NEW t_cycles \in Chunks, tick_time(t_cycles) PROVE mapper'.kind = "Mbc3"
  <2> DEFINE r == tick_cycles(mapper.rtc, t_cycles)
  <2>1. mapper' = [mapper EXCEPT !.rtc = r]
    BY <1>2, <1>6 DEF tick_time
  <2> HIDE DEF r
  <2> QED BY <1>3, <2>1
<1>7. ASSUME NEW own \in BOOLEAN, PowerCycle(own) PROVE mapper'.kind = "Mbc3"
  <2> DEFINE r == rtc_reloaded(mapper.rtc, own)
  <2>1. mapper' = [mapper EXCEPT !.rtc = r]
    BY <1>2, <1>7 DEF PowerCycle
  <2> HIDE DEF r
  <2> QED BY <1>3, <2>1
<1>8. CASE UNCHANGED vars
  BY <1>2, <1>8 DEF vars
<1>9. \A addr, value : ~FlashWrite(addr, value) /\ ~WriteEnable(value)
  BY <1>2 DEF FlashWrite, WriteEnable
<1> QED BY <1>4, <1>5, <1>6, <1>7, <1>8, <1>9 DEF Next

\* Every step of a flash cartridge keeps the two promises and the orders in hand.
LEMMA ChipStep ==
  ASSUME TypeOK, OrdersOK, [Next]_vars, IsMbc6
  PROVE  LET f == mapper.flash
             g == mapper'.flash
         IN  /\ Orders(g, h')
             /\ Asked(f, g, h', mapper.flash_we) /\ Wrote(f, g, mapper.flash_we)
<1> DEFINE f == mapper.flash
           we == mapper.flash_we
           g == mapper'.flash
<1>1. Chip(mapper)
  <2>1. MapperOK(mapper) <=> Clock(mapper) \/ Chip(mapper)
    BY MapperIs
  <2>2. Clock(mapper) => mapper.kind = "Mbc3"
    BY ClockIs
  <2> QED BY <2>1, <2>2 DEF TypeOK, MapperOK, IsMbc6
<1>2. FlashOK(f) /\ f \in Flash /\ we \in BOOLEAN /\ Orders(f, h) /\ mapper.kind = "Mbc6"
      /\ mapper \in [kind : {"Mbc6"}, flash_we : BOOLEAN, flash : Flash]
  BY <1>1, ChipIs DEF Chip, FlashOK, OrdersOK, IsMbc6
<1>3. \A x : [mapper EXCEPT !.flash = x].flash = x
  BY <1>2
<1>4. ASSUME Kept(f, g), Orders(g, h')
      PROVE  Orders(g, h') /\ Asked(f, g, h', we) /\ Wrote(f, g, we)
  <2> DEFINE t == h'
  <2> HIDE DEF f, g, we, t
  <2>1. Asked(f, g, t, we) /\ Wrote(f, g, we)
    BY <1>2, <1>4, KeptAsked
  <2> QED BY <1>4, <2>1 DEF t
<1>5. ASSUME NEW addr \in Addrs, NEW value \in Values, FlashWrite(addr, value)
      PROVE  Orders(g, h') /\ Asked(f, g, h', we) /\ Wrote(f, g, we)
  <2> DEFINE n == flash_write(f, addr, value, we)
             t == IF f.busy > 0 THEN h
                  ELSE heard(IF f.mode = "ProgramHidden" THEN addr % HiddenSize ELSE addr,
                             value, we)
  <2>1. mapper' = [mapper EXCEPT !.flash = n] /\ h' = t
    BY <1>5 DEF FlashWrite
  <2>2. Orders(n, t) /\ Asked(f, n, t, we) /\ Wrote(f, n, we)
    BY <1>2, WriteStep
  <2> HIDE DEF n, t, f, we
  <2>3. g = n
    BY <1>3, <2>1
  <2> QED BY <2>1, <2>2, <2>3
<1>6. ASSUME NEW value \in BOOLEAN, WriteEnable(value)
      PROVE  Kept(f, g) /\ Orders(g, h')
  <2>1. mapper' = [mapper EXCEPT !.flash_we = value] /\ h' = h
    BY <1>6 DEF WriteEnable
  <2>2. g = f
    BY <1>2, <2>1
  <2> QED BY <1>2, <2>1, <2>2 DEF Kept
<1>7. ASSUME NEW t_cycles \in Chunks, tick_time(t_cycles)
      PROVE  Kept(f, g) /\ Orders(g, h')
  <2> DEFINE n == flash_tick(f, t_cycles)
  <2>1. mapper' = [mapper EXCEPT !.flash = n] /\ h' = h
    BY <1>2, <1>7 DEF tick_time
  <2>2. /\ Kept(f, n) /\ n.mode = f.mode /\ n.seq = f.seq /\ n.prefix = f.prefix
        /\ n.page = f.page /\ n.loaded = f.loaded /\ n.buf = f.buf
    BY <1>2, TickIs
  <2> HIDE DEF n, f
  <2>3. g = n
    BY <1>3, <2>1
  <2>4. Orders(n, h)
    BY <1>2, <2>2, SameOrders
  <2> QED BY <2>1, <2>2, <2>3, <2>4
<1>8. ASSUME NEW own \in BOOLEAN, PowerCycle(own)
      PROVE  Kept(f, g) /\ Orders(g, h')
  <2> DEFINE n == flash_reloaded(f)
  <2>1. mapper' = [mapper EXCEPT !.flash_we = FALSE, !.flash = n] /\ h' = NoOrders
    BY <1>2, <1>8 DEF PowerCycle
  <2>2. Kept(f, n) /\ Resting(n)
    BY <1>2, ReloadIs
  <2> HIDE DEF n, f
  <2>3. g = n
    BY <1>2, <2>1
  <2>4. Orders(n, NoOrders)
    BY <2>2, RestingOrders
  <2> QED BY <2>1, <2>2, <2>3, <2>4
<1>9. CASE UNCHANGED vars
  BY <1>2, <1>4, <1>9 DEF vars, Kept
<1>10. /\ \A i : ~RtcWrite(i)
       /\ \A value : ~LatchWrite(value)
  BY <1>2 DEF RtcWrite, LatchWrite
<1> QED BY <1>4, <1>5, <1>6, <1>7, <1>8, <1>9, <1>10 DEF Next

\* The orders told are inductive.
THEOREM OrdersInductive ==
  /\ Init => OrdersOK
  /\ TypeOK /\ OrdersOK /\ [Next]_vars => OrdersOK'
<1>1. Init => OrdersOK
  <2> SUFFICES ASSUME Init, IsMbc6 PROVE Orders(mapper.flash, h)
    BY DEF OrdersOK
  <2>1. mapper = [kind |-> "Mbc6", flash_we |-> FALSE, flash |-> NewFlash] /\ h = NoOrders
    BY DEF Init, IsMbc6
  <2>2. mapper.flash = NewFlash
    BY <2>1
  <2>3. NewFlash \in Flash
    BY ReloadTyped DEF FlashOK
  <2>4. Orders(NewFlash, NoOrders)
    BY <2>3, ReloadIs, RestingOrders
  <2> QED BY <2>1, <2>2, <2>4
<1>2. ASSUME TypeOK, OrdersOK, [Next]_vars PROVE OrdersOK'
  <2>1. CASE IsMbc6
    BY <1>2, <2>1, ChipStep DEF OrdersOK
  <2>2. CASE ~IsMbc6
    BY <1>2, <2>2, KindKept DEF OrdersOK, IsMbc6
  <2> QED BY <2>1, <2>2
<1> QED BY <1>1, <1>2

\* No write erases a bit that a complete erase command did not name, or one that its
\* protection keeps, and the protection turns only by its two commands (mbc6.rs:145-255).
THEOREM NothingErased == Spec => NothingErasedUnasked
<1>1. TypeOK /\ OrdersOK /\ [Next]_vars =>
        [IsMbc6 =>
           LET f == mapper.flash
               g == mapper'.flash
               open == mapper.flash_we
           IN  /\ \A a \in Addr : g.data[a] > f.data[a] =>
                    /\ \/ h'.cmd = ChipErase
                       \/ \E b \in Addrs : sector_of(a) = sector_of(b)
                                           /\ h'.cmd = SectorErase(b)
                    /\ sector_of(a) = 0 => open /\ ~f.protect
               /\ \A a \in DOMAIN f.hidden :
                    g.hidden[a] > f.hidden[a] => open /\ h'.cmd = Extended(Byte.eraseHidden)
               /\ g.protect # f.protect =>
                    open /\ h'.cmd = Extended(IF g.protect THEN Byte.protect
                                              ELSE Byte.unprotect)]_vars
  BY ChipStep DEF Asked
<1>2. Spec => []TypeOK
  BY CartridgeTypeCorrect
<1> QED BY <1>1, <1>2, OrdersInductive, PTL DEF Spec, NothingErasedUnasked

\* A bit is programmed only by the write that ends a full page load, and then the page of
\* the first write loaded takes what was loaded last for each of its bytes, no other byte
\* changes, and sector 0 and the hidden region had their permissions (mbc6.rs:88-138).
THEOREM LoadsProgrammed == Spec => ProgramsWhatWasLoaded
<1>1. TypeOK /\ OrdersOK /\ [Next]_vars =>
        [IsMbc6 =>
           LET f == mapper.flash
               g == mapper'.flash
               open == mapper.flash_we
               Committed(was, is) ==
                 /\ Len(h.load) = PageLen
                 /\ LET base == page_of(h.load[1][1])
                    IN  \A a \in DOMAIN was :
                          is[a] = IF page_of(a) = base THEN was[a] * LoadedBit(offset_of(a))
                                                       ELSE was[a]
           IN  /\ (\E a \in Addr : g.data[a] < f.data[a]) =>
                    /\ h.cmd = Short(Byte.program) /\ Committed(f.data, g.data)
                    /\ page_of(h.load[1][1]) < SectorSize => open /\ ~f.protect
               /\ (\E a \in DOMAIN f.hidden : g.hidden[a] < f.hidden[a]) =>
                    /\ h.cmd = Extended(Byte.programHidden) /\ Committed(f.hidden, g.hidden)
                    /\ open]_vars
  BY ChipStep DEF Wrote
<1>2. Spec => []TypeOK
  BY CartridgeTypeCorrect
<1> QED BY <1>1, <1>2, OrdersInductive, PTL DEF Spec, ProgramsWhatWasLoaded
=============================================================================
