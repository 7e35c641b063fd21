--------------------------- MODULE ManualTimeProofs ----------------------------
(***************************************************************************)
(* What a device shows is what the zone's clocks show, for every zone, any *)
(* capacity of the list, and every time of day that is typed.              *)
(***************************************************************************)
EXTENDS ManualTime, WellFoundedInduction, TLAPS

--------------------------------------------------------------------------------
(* Least elements: the zone's changes are found by looking for the next.    *)

\* A set of natural numbers has a least element.
LEMMA LeastNat ==
  ASSUME NEW S \in SUBSET Nat, S # {}
  PROVE  \E m \in S : \A n \in S : m <= n
<1> DEFINE less == OpToRel(<, Nat)
<1>1. IsWellFoundedOn(less, Nat)
  BY NatLessThanWellFounded
<1>2. \A a, b \in Nat : <<a, b>> \in less <=> a < b
  BY DEF OpToRel
<1> HIDE DEF less
<1>3. PICK m \in S : \A n \in S : ~(<<n, m>> \in less)
  BY <1>1, WFMin
<1>4. \A n \in S : m \in Nat /\ n \in Nat /\ ~(n < m)
  BY <1>2, <1>3
<1> QED
  BY <1>4

\* So has a set of integers that is bounded from below, and Least is it.
LEMMA LeastInt ==
  ASSUME NEW S \in SUBSET Int, S # {}, NEW low \in Int, \A t \in S : low <= t
  PROVE  Least(S) \in S /\ \A t \in S : Least(S) <= t
<1> DEFINE shifted == {n \in Nat : low + n \in S}
<1>1. PICK t \in S : TRUE
  OBVIOUS
<1>2. t - low \in shifted
  BY <1>1
<1>3. PICK m \in shifted : \A n \in shifted : m <= n
  BY <1>2, LeastNat
<1>4. low + m \in S
  BY <1>3
<1>5. ASSUME NEW u \in S PROVE low + m <= u
  <2>1. u - low \in shifted
    OBVIOUS
  <2> QED
    BY <1>3, <2>1
<1>6. \E v \in S : \A u \in S : v <= u
  BY <1>4, <1>5
<1> QED
  BY <1>6 DEF Least

--------------------------------------------------------------------------------
(* The zone.                                                                *)

ZoneOK == zone \in [Instants -> Int] /\ from \in Instants

\* The instants a zone may change at lie between the first and the last.
LEMMA InstantsOrdered ==
  /\ Earliest \in Int /\ Horizon \in Nat /\ Earliest <= Horizon
  /\ Earliest \in Instants /\ Horizon \in Instants
  /\ Instants \subseteq Int /\ \A t \in Instants : Earliest <= t /\ t <= Horizon
BY DstAssumption DEF Earliest, Instants

\* A zone has an offset at every instant, before the first and after the last too.
LEMMA OffsetInt == ASSUME ZoneOK PROVE \A t \in Int : OffsetAt(t) \in Int
BY InstantsOrdered DEF ZoneOK, OffsetAt, Instants

\* So it has a standard offset.
LEMMA StandardInt == ASSUME ZoneOK PROVE StandardOffset(from) \in Int
<1> DEFINE year == (from \div YearLength) * YearLength
<1>1. year \in Int
  BY DstAssumption, InstantsOrdered DEF ZoneOK
<1> HIDE DEF year
<1>2. OffsetAt(year + January) \in Int /\ OffsetAt(year + July) \in Int
  BY <1>1, OffsetInt, DstAssumption
<1> QED
  BY <1>2 DEF StandardOffset, Smaller, year

\* Up to the next change after c the zone keeps the offset it has at c: a first
\* instant of another offset would be a change.
LEMMA SteadyUntilChange ==
  ASSUME ZoneOK, NEW c \in Instants, NEW t \in Int, t >= c,
         \A u \in Changes(c, OffsetAt(c)) : t < u
  PROVE  OffsetAt(t) = OffsetAt(c)
<1> DEFINE others == {u \in Instants : c < u /\ u <= t /\ OffsetAt(u) # OffsetAt(c)}
<1>1. SUFFICES ASSUME OffsetAt(t) # OffsetAt(c) PROVE FALSE
  OBVIOUS
<1>2. others # {}
  <2>1. CASE t <= Horizon
    BY <1>1, <2>1, InstantsOrdered DEF Instants
  <2>2. CASE t > Horizon
    <3>1. OffsetAt(t) = OffsetAt(Horizon)
      BY <2>2, InstantsOrdered DEF OffsetAt
    <3> QED
      BY <1>1, <2>2, <3>1, InstantsOrdered
  <2> QED
    BY <2>1, <2>2, InstantsOrdered
<1>3. Least(others) \in others /\ \A u \in others : Least(others) <= u
  <2>1. others \in SUBSET Int /\ \A u \in others : Earliest <= u
    BY InstantsOrdered
  <2> QED
    BY <1>2, <2>1, LeastInt, InstantsOrdered
<1> DEFINE first == Least(others)
<1> HIDE DEF first
<1>4. /\ first \in Instants /\ first \in Int
      /\ c < first /\ first <= t /\ OffsetAt(first) # OffsetAt(c)
  BY <1>3, InstantsOrdered DEF first
<1>5. OffsetAt(first - 1) = OffsetAt(c)
  <2>1. CASE first - 1 = c
    BY <2>1
  <2>2. CASE first - 1 # c
    <3>1. first - 1 \in Instants /\ c < first - 1 /\ first - 1 <= t
      BY <1>4, <2>2, InstantsOrdered DEF Instants
    <3>2. first - 1 \notin others
      BY <1>3, <1>4, <3>1 DEF first
    <3> QED
      BY <3>1, <3>2
  <2> QED
    BY <2>1, <2>2
<1>6. first \in Changes(c, OffsetAt(c))
  BY <1>4, <1>5 DEF Changes, Following
<1> QED
  BY <1>4, <1>6

--------------------------------------------------------------------------------
(* The list, by induction on the periods added.                             *)

Last == entries[Len(entries)]

\* Where the iterator stands: the offset in effect there, what the last entry
\* says of it, and a change of the offset behind it once a period has ended.
CursorInv ==
  /\ current = OffsetAt(cursor)
  /\ from <= cursor
  /\ entries = <<>> => pc = "loop" /\ cursor = from /\ start = 0
  /\ entries # <<>> /\ Last.until # None =>
       /\ from < cursor
       /\ start = Wire(cursor)
       /\ Last.until = start
       /\ Last.offset # current - StandardOffset(from)
       /\ \E t \in from..cursor : OffsetAt(t) # OffsetAt(cursor)
  /\ entries # <<>> /\ Last.until = None => pc = "done"
  /\ pc = "done" => Last.until = None \/ Len(entries) >= Capacity

\* A period ends after the sync, and after it started unless both are clamped.
Ends(starting, until) ==
  /\ until > from
  /\ \/ until > starting
     \/ from < 0 /\ starting = 0 /\ until = 0

\* How the periods follow each other, whatever the host clock.
OrderInv ==
  \A i \in DOMAIN entries :
    /\ entries[i].starting = IF i = 1 THEN 0 ELSE entries[i - 1].until
    /\ entries[i].until = None => i = Len(entries)
    /\ entries[i].until # None => Ends(entries[i].starting, entries[i].until)

\* LocalTimeRight without its horizon.
OffsetInv ==
  \A i \in DOMAIN entries, t \in Int :
    t >= from /\ t >= 0 /\ InEffect(entries[i], t) =>
      StandardOffset(from) + entries[i].offset = OffsetAt(t)

\* Up to the end of the last period some entry is in effect.
CoveredInv ==
  entries # <<>> =>
    \A t \in Nat : Last.until = None \/ t < Last.until =>
      \E i \in DOMAIN entries : InEffect(entries[i], t)

\* What no entry is spent on.
ChangeInv ==
  /\ entries # <<>> => entries[1].offset = OffsetAt(from) - StandardOffset(from)
  /\ \A i \in DOMAIN entries : i > 1 => entries[i].offset # entries[i - 1].offset
  /\ entries # <<>> => entries[1].until = FirstEnd

ListInv ==
  /\ TypeOK
  /\ CursorInv
  /\ OrderInv
  /\ OffsetInv
  /\ CoveredInv
  /\ ChangeInv

Entries == [offset : Int, starting : 0..Horizon, until : 0..Horizon \cup {None}]

\* What the list is built for is a zone and an instant of it.
LEMMA ZoneTyped == TypeOK => ZoneOK
BY DstAssumption DEF TypeOK, ZoneOK

\* Clamping to the Matter epoch keeps the order of what lies after it.
LEMMA WireOrder ==
  /\ \A t \in Instants : Wire(t) \in 0..Horizon
  /\ \A t \in Int : Wire(t) >= t /\ (t >= 0 => Wire(t) = t)
  /\ \A t, u \in Int : u >= 0 /\ u < Wire(t) => u < t
BY InstantsOrdered DEF Wire

\* The next change after the cursor, and the offset up to it.
LEMMA NextChange ==
  ASSUME TypeOK, current = OffsetAt(cursor), Changes(cursor, current) # {},
         NEW at, at = Least(Changes(cursor, current))
  PROVE  /\ at \in Instants /\ cursor < at /\ OffsetAt(at) # current
         /\ \A t \in Int : cursor <= t /\ t < at => OffsetAt(t) = current
<1>1. cursor \in Instants /\ ZoneOK
  BY ZoneTyped DEF TypeOK
<1>2. /\ Changes(cursor, current) \in SUBSET Int
      /\ \A t \in Changes(cursor, current) : Earliest <= t
  BY InstantsOrdered DEF Changes, Following
<1>3. at \in Changes(cursor, current) /\ \A t \in Changes(cursor, current) : at <= t
  BY <1>2, LeastInt, InstantsOrdered
<1>4. at \in Instants /\ cursor < at /\ OffsetAt(at) # current
  BY <1>3 DEF Changes, Following
<1>5. ASSUME NEW t \in Int, cursor <= t, t < at PROVE OffsetAt(t) = current
  <2>1. \A v \in Changes(cursor, OffsetAt(cursor)) : v \in Int /\ at \in Int /\ t < v
    BY <1>2, <1>3, <1>4, <1>5, InstantsOrdered
  <2> QED
    BY <1>1, <1>5, <2>1, SteadyUntilChange
<1> QED
  BY <1>4, <1>5

\* What the list is built for stays, and with it the zone's offsets.
LEMMA InputKept ==
  ASSUME UNCHANGED input
  PROVE  /\ zone' = zone /\ marks' = marks /\ from' = from /\ limit' = limit
         /\ Capacity' = Capacity
         /\ StandardOffset(from)' = StandardOffset(from)
         /\ FirstEnd' = FirstEnd
BY DEF input, FirstEnd, Wire, Capacity, StandardOffset, NextOffsetTransition, OffsetAt, Changes, Following

LEMMA OffsetKept ==
  ASSUME UNCHANGED input, NEW t PROVE OffsetAt(t)' = OffsetAt(t)
BY DEF input, OffsetAt

\* The invariant holds before the first period.
LEMMA InitInv == Init => ListInv
<1>1. SUFFICES ASSUME Init PROVE ListInv
  OBVIOUS
<1> USE <1>1 DEF Init, EnterLoop
<1>2. ZoneOK
  BY DstAssumption DEF ZoneOK
<1>3. TypeOK
  <2>1. OffsetAt(from) \in Int /\ 0 \in 0..Horizon /\ from \in Instants
    BY <1>2, OffsetInt, InstantsOrdered, DstAssumption DEF ZoneOK
  <2>2. entries \in Seq(Entries) /\ Len(entries) <= Capacity
    BY DstAssumption DEF Capacity
  <2> QED
    BY <2>1, <2>2 DEF TypeOK, Entries
<1>4. CursorInv
  BY <1>2, InstantsOrdered DEF CursorInv, ZoneOK
<1>5. OrderInv /\ OffsetInv /\ CoveredInv /\ ChangeInv
  BY DEF OrderInv, OffsetInv, CoveredInv, ChangeInv
<1> QED
  BY <1>3, <1>4, <1>5 DEF ListInv

\* One entry is appended: the others stay where they are.
LEMMA Appended ==
  ASSUME TypeOK, NEW e \in Entries, entries' = Append(entries, e)
  PROVE  /\ entries' \in Seq(Entries)
         /\ Len(entries) \in Nat /\ Len(entries') = Len(entries) + 1
         /\ entries' # <<>>
         /\ DOMAIN entries = 1..Len(entries) /\ DOMAIN entries' = 1..(Len(entries) + 1)
         /\ \A i \in DOMAIN entries : entries'[i] = entries[i] /\ entries[i] \in Entries
         /\ Last' = e
         /\ entries'[Len(entries) + 1] = e
         /\ entries # <<>> => Len(entries) >= 1 /\ Last = entries[Len(entries)]
         /\ entries = <<>> => Len(entries) = 0
<1>1. entries \in Seq(Entries)
  BY DEF TypeOK, Entries
<1> QED
  BY <1>1 DEF Last

\* What every entry is made of.
LEMMA EntryTyped ==
  ASSUME TypeOK, NEW until \in 0..Horizon \cup {None}
  PROVE  /\ Entry(until) \in Entries
         /\ Entry(until).offset = current - StandardOffset(from)
         /\ Entry(until).starting = start
         /\ Entry(until).until = until
<1>1. StandardOffset(from) \in Int
  BY ZoneTyped, StandardInt
<1> QED
  BY <1>1 DEF TypeOK, Entry, Entries

\* The loop's own facts about the entries so far.
LEMMA LoopFacts ==
  ASSUME ListInv, pc = "loop"
  PROVE  /\ current = OffsetAt(cursor) /\ from <= cursor
         /\ entries = <<>> => cursor = from /\ start = 0
         /\ entries # <<>> =>
              /\ Last.until # None /\ from < cursor
              /\ start = Wire(cursor) /\ Last.until = start
              /\ Last.offset # current - StandardOffset(from)
         /\ from \in Int /\ cursor \in Int /\ current \in Int /\ cursor \in Instants
         /\ start \in 0..Horizon /\ StandardOffset(from) \in Int
BY ZoneTyped, StandardInt, InstantsOrdered, DstAssumption DEF ListInv, CursorInv, TypeOK

\* One period is added, of the offset in effect at the cursor, and the zone keeps
\* that offset as long as the entry says.
LEMMA OnePeriodMore ==
  ASSUME ListInv, pc = "loop", UNCHANGED input,
         NEW until \in 0..Horizon \cup {None}, entries' = Append(entries, Entry(until)),
         until # None => Ends(start, until),
         entries = <<>> => until = FirstEnd,
         \A t \in Int :
           t >= cursor /\ t >= 0 /\ (until = None \/ t < until) => OffsetAt(t) = current
  PROVE  /\ OrderInv' /\ OffsetInv' /\ CoveredInv' /\ ChangeInv'
         /\ entries' \in Seq(Entries) /\ Len(entries') = Len(entries) + 1 /\ entries' # <<>>
         /\ Last'.until = until /\ Last'.offset = current - StandardOffset(from)
<1> DEFINE e == Entry(until)
           n == Len(entries)
<1>1. /\ current = OffsetAt(cursor) /\ from <= cursor
      /\ entries = <<>> => cursor = from /\ start = 0
      /\ entries # <<>> =>
           /\ Last.until # None /\ from < cursor
           /\ start = Wire(cursor) /\ Last.until = start
           /\ Last.offset # current - StandardOffset(from)
      /\ from \in Int /\ cursor \in Int /\ current \in Int /\ cursor \in Instants
      /\ start \in 0..Horizon /\ StandardOffset(from) \in Int
  BY LoopFacts
<1>2. TypeOK /\ OrderInv /\ OffsetInv /\ CoveredInv /\ ChangeInv
  BY DEF ListInv
<1>3. /\ e \in Entries /\ e.offset = current - StandardOffset(from)
      /\ e.starting = start /\ e.until = until
  BY <1>2, EntryTyped
<1> HIDE DEF e
<1>4. /\ entries' \in Seq(Entries)
      /\ n \in Nat /\ Len(entries) = n /\ Len(entries') = n + 1
      /\ entries' # <<>>
      /\ DOMAIN entries = 1..n /\ DOMAIN entries' = 1..(n + 1)
      /\ \A i \in DOMAIN entries : entries'[i] = entries[i] /\ entries[i] \in Entries
      /\ Last' = e
      /\ entries'[n + 1] = e
      /\ entries # <<>> => n >= 1 /\ Last = entries[n]
      /\ entries = <<>> => n = 0
  BY <1>2, <1>3, Appended DEF e
<1> HIDE DEF n
<1>5. /\ from' = from /\ zone' = zone
      /\ StandardOffset(from)' = StandardOffset(from)
      /\ FirstEnd' = FirstEnd
  BY InputKept
<1>6. \A t : OffsetAt(t)' = OffsetAt(t)
  BY OffsetKept
<1>7. None \notin Int /\ (until = None \/ until \in Int)
  BY DstAssumption
<1>8. OrderInv'
  <2>1. ASSUME NEW i \in 1..n
        PROVE  /\ entries'[i].starting = IF i = 1 THEN 0 ELSE entries'[i - 1].until
               /\ entries'[i].until # None
               /\ Ends(entries'[i].starting, entries'[i].until)
    <3>1. i = n => entries[i].until # None
      BY <1>1, <1>4
    <3>2. i # 1 => i - 1 \in 1..n
      BY <1>4
    <3> QED
      BY <1>2, <1>4, <3>1, <3>2 DEF OrderInv
  <2>2. e.starting = IF n + 1 = 1 THEN 0 ELSE entries'[n].until
    BY <1>1, <1>3, <1>4
  <2> QED
    BY <1>3, <1>4, <1>5, <2>1, <2>2 DEF OrderInv, Ends
<1>9. OffsetInv'
  <2>1. ASSUME NEW t \in Int, t >= from, t >= 0, InEffect(e, t)
        PROVE  StandardOffset(from) + e.offset = OffsetAt(t)
    <3>1. t >= start /\ (until = None \/ t < until)
      BY <1>3, <2>1 DEF InEffect
    <3>2. t >= cursor
      BY <1>1, <2>1, <3>1, WireOrder
    <3> QED
      BY <1>1, <1>3, <2>1, <3>1, <3>2
  <2>2. ASSUME NEW i \in 1..(n + 1), NEW t \in Int, t >= from, t >= 0, InEffect(entries'[i], t)
        PROVE  StandardOffset(from) + entries'[i].offset = OffsetAt(t)
    BY <1>2, <1>4, <2>1, <2>2 DEF OffsetInv
  <2> QED
    BY <1>4, <1>5, <1>6, <2>2 DEF OffsetInv, InEffect
<1>10. CoveredInv'
  <2>1. ASSUME NEW t \in Nat, until = None \/ t < until
        PROVE  \E i \in 1..(n + 1) : InEffect(entries'[i], t)
    <3>1. CASE t >= start
      BY <1>3, <1>4, <2>1, <3>1 DEF InEffect
    <3>2. CASE t < start
      <4>1. entries # <<>> /\ t < Last.until
        BY <1>1, <3>2
      <4>2. PICK i \in 1..n : InEffect(entries[i], t)
        BY <1>2, <1>4, <4>1 DEF CoveredInv
      <4> QED
        BY <1>4, <4>2
    <3>3. t >= start \/ t < start
      BY <1>1
    <3> QED
      BY <3>1, <3>2, <3>3
  <2> QED
    BY <1>3, <1>4, <2>1 DEF CoveredInv, InEffect
<1>11. ChangeInv'
  <2>1. OffsetAt(from)' = OffsetAt(from)
    BY <1>5 DEF OffsetAt
  <2>2. CASE entries = <<>>
    <3>1. e.offset = OffsetAt(from) - StandardOffset(from)
      BY <1>1, <1>3, <2>2
    <3> QED
      BY <1>3, <1>4, <1>5, <2>1, <2>2, <3>1 DEF ChangeInv
  <2>3. CASE entries # <<>>
    <3>1. e.offset # entries[n].offset
      BY <1>1, <1>3, <1>4, <2>3
    <3>2. entries'[1] = entries[1] /\ entries'[n] = entries[n]
      BY <1>4, <2>3
    <3>3. ASSUME NEW i \in 1..(n + 1), i > 1 PROVE entries'[i].offset # entries'[i - 1].offset
      <4>1. CASE i = n + 1
        <5>1. i - 1 = n
          BY <1>4, <4>1
        <5> QED
          BY <1>4, <3>1, <3>2, <4>1, <5>1
      <4>2. CASE i # n + 1
        <5>1. i \in 1..n /\ i - 1 \in 1..n
          BY <1>4, <3>3, <4>2
        <5> QED
          BY <1>2, <1>4, <3>3, <5>1 DEF ChangeInv
      <4> QED
        BY <4>1, <4>2
    <3> QED
      BY <1>2, <1>4, <1>5, <2>1, <2>3, <3>2, <3>3 DEF ChangeInv
  <2> QED
    BY <2>2, <2>3
<1> QED
  BY <1>3, <1>4, <1>8, <1>9, <1>10, <1>11

\* There is room for what the guard lets in.
LEMMA RoomForOne ==
  ASSUME TypeOK, UNCHANGED input, Len(entries) < Capacity, Len(entries') = Len(entries) + 1
  PROVE  Len(entries') <= Capacity'
<1>1. Capacity \in Int /\ Len(entries) \in Nat
  BY DstAssumption DEF TypeOK, Capacity
<1> QED
  BY <1>1, InputKept

\* The period that starts at the cursor and ends at the next change.
LEMMA AddPeriodInv == ListInv /\ AddPeriod => ListInv'
<1>1. SUFFICES ASSUME ListInv, AddPeriod PROVE ListInv'
  OBVIOUS
<1> DEFINE at == Least(Changes(cursor, current))
<1>2. /\ pc = "loop" /\ pc' = "loop" /\ Len(entries) < Capacity
      /\ entries' = Append(entries, Entry(Wire(at)))
      /\ start' = Wire(at) /\ cursor' = at /\ current' = OffsetAt(at)
      /\ UNCHANGED input /\ Changes(cursor, current) # {}
  BY <1>1 DEF AddPeriod, EndPeriod
<1>3. TypeOK /\ ZoneOK
  BY <1>1, ZoneTyped DEF ListInv
<1>4. /\ current = OffsetAt(cursor) /\ from <= cursor
      /\ entries = <<>> => cursor = from /\ start = 0
      /\ entries # <<>> => start = Wire(cursor)
      /\ from \in Int /\ cursor \in Int /\ current \in Int /\ cursor \in Instants
      /\ StandardOffset(from) \in Int
  BY <1>1, <1>2, LoopFacts
<1>5. /\ at \in Instants /\ cursor < at /\ OffsetAt(at) # current
      /\ \A t \in Int : cursor <= t /\ t < at => OffsetAt(t) = current
  BY <1>2, <1>3, <1>4, NextChange
<1>6. at \in Int /\ Wire(at) \in 0..Horizon /\ OffsetAt(at) \in Int
  BY <1>3, <1>5, WireOrder, InstantsOrdered, OffsetInt
<1>7. Wire(at) # None
  BY <1>6, DstAssumption
<1>8. Ends(start, Wire(at))
  BY <1>4, <1>5, <1>6 DEF Ends, Wire
<1>9. entries = <<>> => Wire(at) = FirstEnd
  <2>1. at # None
    BY <1>6, DstAssumption
  <2>2. entries = <<>> => NextOffsetTransition(from) = at
    BY <1>2, <1>4 DEF NextOffsetTransition
  <2> HIDE DEF at
  <2> QED
    BY <2>1, <2>2 DEF FirstEnd
<1> HIDE DEF at
<1>10. ASSUME NEW t \in Int, t >= cursor, t >= 0, t < Wire(at) PROVE OffsetAt(t) = current
  BY <1>5, <1>6, <1>10, WireOrder
<1>11. /\ OrderInv' /\ OffsetInv' /\ CoveredInv' /\ ChangeInv'
       /\ entries' \in Seq(Entries) /\ Len(entries') = Len(entries) + 1 /\ entries' # <<>>
       /\ Last'.until = Wire(at) /\ Last'.offset = current - StandardOffset(from)
  BY <1>1, <1>2, <1>6, <1>7, <1>8, <1>9, <1>10, OnePeriodMore
<1>12. /\ from' = from /\ zone' = zone /\ marks' = marks /\ limit' = limit
       /\ StandardOffset(from)' = StandardOffset(from)
  BY <1>2, InputKept
<1>13. TypeOK'
  <2>1. Len(entries') <= Capacity'
    BY <1>2, <1>3, <1>11, RoomForOne
  <2> QED
    BY <1>2, <1>3, <1>5, <1>6, <1>11, <1>12, <2>1 DEF TypeOK, Entries
<1>14. CursorInv'
  <2>1. current' = OffsetAt(cursor)'
    BY <1>2, <1>12 DEF OffsetAt
  <2>2. start' = Wire(cursor)'
    BY <1>2 DEF Wire
  <2>3. Last'.offset # current' - StandardOffset(from)'
    BY <1>2, <1>4, <1>5, <1>6, <1>11, <1>12
  <2>4. \E t \in from'..cursor' : OffsetAt(t)' # OffsetAt(cursor)'
    <3>1. cursor \in from'..cursor' /\ OffsetAt(cursor) # OffsetAt(at)
      BY <1>2, <1>4, <1>5, <1>6, <1>12
    <3>2. \A t : OffsetAt(t)' = OffsetAt(t)
      BY <1>2, OffsetKept
    <3> QED
      BY <1>2, <2>1, <3>1, <3>2
  <2>5. from' < cursor' /\ from' <= cursor'
    BY <1>2, <1>4, <1>5, <1>6, <1>12
  <2> QED
    BY <1>2, <1>7, <1>11, <2>1, <2>2, <2>3, <2>4, <2>5 DEF CursorInv
<1> QED
  BY <1>11, <1>13, <1>14 DEF ListInv

\* The period that no change ends.
LEMMA AddOpenEndedInv == ListInv /\ AddOpenEnded => ListInv'
<1>1. SUFFICES ASSUME ListInv, AddOpenEnded PROVE ListInv'
  OBVIOUS
<1>2. /\ pc = "loop" /\ pc' = "done" /\ Len(entries) < Capacity
      /\ entries' = Append(entries, Entry(None))
      /\ start' = start /\ cursor' = cursor /\ current' = current
      /\ UNCHANGED input /\ Changes(cursor, current) = {}
  BY <1>1 DEF AddOpenEnded
<1>3. TypeOK /\ ZoneOK
  BY <1>1, ZoneTyped DEF ListInv
<1>4. /\ current = OffsetAt(cursor) /\ from <= cursor
      /\ entries = <<>> => cursor = from
      /\ cursor \in Int /\ cursor \in Instants
  BY <1>1, <1>2, LoopFacts
<1>5. \A t \in Int : cursor <= t => OffsetAt(t) = current
  BY <1>2, <1>3, <1>4, SteadyUntilChange
<1>6. entries = <<>> => None = FirstEnd
  BY <1>2, <1>4 DEF FirstEnd, NextOffsetTransition
<1>7. /\ OrderInv' /\ OffsetInv' /\ CoveredInv' /\ ChangeInv'
      /\ entries' \in Seq(Entries) /\ Len(entries') = Len(entries) + 1 /\ entries' # <<>>
      /\ Last'.until = None /\ Last'.offset = current - StandardOffset(from)
  BY <1>1, <1>2, <1>4, <1>5, <1>6, OnePeriodMore
<1>8. /\ from' = from /\ zone' = zone /\ marks' = marks /\ limit' = limit
  BY <1>2, InputKept
<1>9. TypeOK'
  <2>1. Len(entries') <= Capacity'
    BY <1>2, <1>3, <1>7, RoomForOne
  <2> QED
    BY <1>2, <1>3, <1>7, <1>8, <2>1 DEF TypeOK, Entries
<1>10. CursorInv'
  <2>1. current' = OffsetAt(cursor)'
    BY <1>2, <1>4, <1>8 DEF OffsetAt
  <2> QED
    BY <1>2, <1>4, <1>7, <1>8, <2>1 DEF CursorInv
<1> QED
  BY <1>7, <1>9, <1>10 DEF ListInv

\* The device can hold no more.
LEMMA ListFullInv == ListInv /\ ListFull => ListInv'
<1>1. SUFFICES ASSUME ListInv, ListFull PROVE ListInv'
  OBVIOUS
<1>2. /\ UNCHANGED <<zone, marks, from, limit, entries, current, start, cursor>>
      /\ pc = "loop" /\ pc' = "done" /\ Len(entries) >= Capacity
  BY <1>1 DEF ListFull, input
<1>3. entries # <<>>
  <2>1. Capacity \in Int /\ Capacity >= 1
    BY <1>1, DstAssumption DEF ListInv, TypeOK, Capacity
  <2>2. entries = <<>> => Len(entries) = 0
    OBVIOUS
  <2> QED
    BY <1>2, <2>1, <2>2
<1>4. TypeOK'
  BY <1>1, <1>2 DEF ListInv, TypeOK, Capacity
<1>5. CursorInv'
  BY <1>1, <1>2, <1>3 DEF ListInv, CursorInv, Last, OffsetAt, StandardOffset, Capacity
<1>6. OrderInv' /\ CoveredInv'
  BY <1>1, <1>2 DEF ListInv, OrderInv, Ends, CoveredInv, Last
<1>7. OffsetInv' /\ ChangeInv'
  <2>1. UNCHANGED input /\ from' = from
    BY <1>2 DEF input
  <2>2. OffsetAt(from)' = OffsetAt(from) /\ (\A t : OffsetAt(t)' = OffsetAt(t))
    BY <1>2, <2>1, OffsetKept DEF OffsetAt
  <2> QED
    BY <1>1, <1>2, <2>1, <2>2, InputKept DEF ListInv, OffsetInv, ChangeInv
<1> QED
  BY <1>4, <1>5, <1>6, <1>7 DEF ListInv

\* No step of the loop breaks the invariant.
LEMMA StepInv == ListInv /\ [Next]_vars => ListInv'
<1>1. SUFFICES ASSUME ListInv, UNCHANGED vars PROVE ListInv'
  BY AddPeriodInv, AddOpenEndedInv, ListFullInv DEF Next
<1> USE <1>1 DEF vars
<1>2. TypeOK' /\ CursorInv'
  BY DEF ListInv, TypeOK, CursorInv, Last, OffsetAt, StandardOffset, Capacity
<1>3. OrderInv' /\ CoveredInv'
  BY DEF ListInv, OrderInv, Ends, CoveredInv, Last
<1>4. OffsetInv' /\ ChangeInv'
  <2>1. UNCHANGED input /\ from' = from
    BY DEF input
  <2>2. OffsetAt(from)' = OffsetAt(from) /\ (\A t : OffsetAt(t)' = OffsetAt(t))
    BY <2>1, OffsetKept DEF OffsetAt
  <2> QED
    BY <2>1, <2>2, InputKept DEF ListInv, OffsetInv, ChangeInv
<1> QED
  BY <1>2, <1>3, <1>4 DEF ListInv

\* The invariant holds in every reachable state of the loop.
THEOREM ListInvariant == Spec => []ListInv
BY InitInv, StepInv, PTL DEF Spec

\* All variables of build_dst_offset_list stay in their ranges, and the list in
\* the capacity of the device.
THEOREM TypeCorrect == Spec => []TypeOK
<1>1. ListInv => TypeOK
  BY DEF ListInv
<1> QED
  BY <1>1, ListInvariant, PTL

\* The zone's local time follows from the list at every instant it covers, for
\* every zone with every tzdb.
THEOREM LocalTimeFollows == Spec => []LocalTimeRight
<1>1. ListInv => LocalTimeRight
  <2>1. SUFFICES ASSUME ListInv,
                        NEW i \in DOMAIN entries, NEW t \in from..(Horizon + YearLength),
                        t >= 0, InEffect(entries[i], t)
                 PROVE  StandardOffset(from) + entries[i].offset = OffsetAt(t)
    BY DEF LocalTimeRight
  <2>2. t \in Int /\ t >= from
    BY <2>1, InstantsOrdered, DstAssumption DEF ListInv, TypeOK
  <2> QED
    BY <2>1, <2>2 DEF ListInv, OffsetInv
<1> QED
  BY <1>1, ListInvariant, PTL

\* The periods of every list tile the time from the epoch on, whatever the host's clock.
THEOREM AlwaysContiguous == Spec => []Contiguous
<1>1. ListInv => Contiguous
  BY DEF ListInv, CursorInv, OrderInv, Ends, Contiguous
<1> QED
  BY <1>1, ListInvariant, PTL

\* The capacity of the device is spent on changes of the offset alone, and all
\* of it when there are enough.
THEOREM NothingWasted == Spec => []NoEntryWasted
<1>1. ListInv => NoEntryWasted
  <2>1. SUFFICES ASSUME ListInv PROVE NoEntryWasted
    OBVIOUS
  <2>2. pc = "done" /\ Len(entries) < limit => Last.until = None
    <3>1. limit \in Int /\ Capacity \in Int /\ limit <= Capacity
      BY <2>1, DstAssumption DEF ListInv, TypeOK, Capacity
    <3>2. Len(entries) \in Int
      BY <2>1 DEF ListInv, TypeOK
    <3>3. pc = "done" => Last.until = None \/ Len(entries) >= Capacity
      BY <2>1 DEF ListInv, CursorInv
    <3> QED
      BY <3>1, <3>2, <3>3
  <2> QED
    BY <2>1, <2>2 DEF ListInv, ChangeInv, NoEntryWasted, Last
<1> QED
  BY <1>1, ListInvariant, PTL

--------------------------------------------------------------------------------
(* The sync around the list.                                                *)

\* sync_one builds the list as DstList does, whatever time was typed.
THEOREM BuildsList == ManualSpec => Spec
<1>1. ManualInit => Init
  BY ManualAssumption DEF ManualInit, Init
<1>2. [ManualNext]_allVars => [Next]_vars
  BY DEF ManualNext, RejectTyped, SetManualTime, SetHostTime, WriteList, allVars, vars
<1> QED
  BY <1>1, <1>2, PTL DEF ManualSpec, Spec

\* So what holds of every list holds of the lists that are sent.
THEOREM ListsSent == ManualSpec => [](TypeOK /\ LocalTimeRight /\ Contiguous /\ NoEntryWasted)
BY BuildsList, TypeCorrect, LocalTimeFollows, AlwaysContiguous, NothingWasted, PTL

--------------------------------------------------------------------------------
(* Times of day.                                                            *)

\* The arithmetic that the day of DayLength instants needs, one fact at a time.
LEMMA ProductInt == \A a, b \in Int : a * b \in Int
OBVIOUS

LEMMA Distribute ==
  \A a, b, d \in Int : (a - b) * d = a * d - b * d /\ (a + b) * d = a * d + b * d
OBVIOUS

LEMMA Regroup == \A a, b, d \in Int : a * (b * d) = (a * b) * d
OBVIOUS

LEMMA AtLeastOnce ==
  ASSUME NEW k \in Int, NEW d \in Nat \ {0}
  PROVE  (k >= 1 => k * d >= d) /\ (k <= -1 => k * d <= -d) /\ (k >= 0 => k * d >= 0)
OBVIOUS

LEMMA Division ==
  ASSUME NEW a \in Int, NEW d \in Nat \ {0}
  PROVE  a \div d \in Int /\ a % d \in 0..(d - 1) /\ a = (a \div d) * d + (a % d)
OBVIOUS

\* Quotient and remainder are unique.
LEMMA Unique ==
  ASSUME NEW q \in Int, NEW d \in Nat \ {0}, NEW r \in 0..(d - 1)
  PROVE  (q * d + r) \div d = q /\ (q * d + r) % d = r
<1> DEFINE a == q * d + r
           p == a \div d
           s == a % d
<1>1. q * d \in Int /\ r \in Int /\ d \in Int
  BY ProductInt
<1>2. p \in Int /\ s \in 0..(d - 1) /\ a = p * d + s
  BY <1>1, Division
<1>3. p * d \in Int /\ (p - q) * d = p * d - q * d /\ (p - q) * d = r - s
  <2>1. p * d \in Int /\ (p - q) * d = p * d - q * d
    BY <1>1, <1>2, ProductInt, Distribute
  <2>2. q * d + r = p * d + s
    BY <1>2
  <2> HIDE DEF p, s
  <2>3. p * d - q * d = r - s
    BY <1>1, <1>2, <2>1, <2>2
  <2> QED
    BY <2>1, <2>3
<1> HIDE DEF p, s
<1>4. p - q \in Int /\ ~(p - q >= 1) /\ ~(p - q <= -1)
  <2>1. p - q \in Int
    BY <1>2
  <2>2. (p - q >= 1 => r - s >= d) /\ (p - q <= -1 => r - s <= -d)
    BY <1>3, <2>1, AtLeastOnce
  <2> QED
    BY <1>2, <2>1, <2>2
<1>5. p = q
  BY <1>2, <1>4
<1>6. s = r
  <2>1. q * d + r = q * d + s
    BY <1>2, <1>5
  <2> QED
    BY <1>1, <1>2, <2>1
<1> QED
  BY <1>5, <1>6 DEF p, s

\* The clock face of half a day.
LEMMA Face ==
  ASSUME NEW d \in Nat \ {0}, NEW r \in 0..(d - 1)
  PROVE  r % d = r /\ (r + d) % d = r /\ d % d = 0
<1>1. (0 * d + r) % d = r /\ (1 * d + r) % d = r /\ (1 * d + 0) % d = 0
  BY Unique
<1> QED
  BY <1>1

\* A day has a positive number of hours and of instants.
LEMMA DayTyped ==
  /\ HalfDay \in Nat \ {0} /\ HourLength \in Nat \ {0}
  /\ 2 * HalfDay \in Nat \ {0} /\ DayLength \in Nat \ {0}
  /\ DayLength = (2 * HalfDay) * HourLength
<1>1. HalfDay \in Nat \ {0} /\ HourLength \in Nat \ {0} /\ 2 * HalfDay \in Nat \ {0}
  BY ManualAssumption
<1>2. (2 * HalfDay) * HourLength \in Nat \ {0}
  <2>1. (2 * HalfDay) * HourLength >= HourLength /\ (2 * HalfDay) * HourLength \in Int
    BY <1>1, AtLeastOnce, ProductInt
  <2> QED
    BY <1>1, <2>1
<1> QED
  BY <1>1, <1>2 DEF DayLength

\* The hour and minute of a time of day come back out of it, whatever the day.
LEMMA Decompose ==
  ASSUME NEW q \in Int, NEW h \in 0..(2 * HalfDay - 1), NEW m \in 0..(HourLength - 1),
         NEW time, time = q * DayLength + h * HourLength + m
  PROVE  (time % DayLength) \div HourLength = h /\ time % HourLength = m
<1>1. /\ HourLength \in Nat \ {0} /\ 2 * HalfDay \in Nat \ {0} /\ DayLength \in Nat \ {0}
      /\ DayLength = (2 * HalfDay) * HourLength
  BY DayTyped
<1> DEFINE d == 2 * HalfDay
           part == h * HourLength
           rest == part + m
           days == q * DayLength
           hours == q * d
<1>2. /\ h \in Int /\ d \in Int /\ q \in Int /\ m \in Int
      /\ d - 1 \in Int /\ d - 1 - h \in Int /\ d - 1 - h >= 0 /\ h >= 0
  BY <1>1
<1>3. /\ part \in Int /\ part >= 0 /\ days \in Int /\ hours \in Int
      /\ hours * HourLength \in Int /\ days = hours * HourLength
  BY <1>1, <1>2, ProductInt, Regroup, AtLeastOnce
<1>4. /\ part = h * HourLength /\ days = q * DayLength /\ rest = part + m
      /\ d * HourLength = DayLength /\ time = days + part + m
  BY <1>1
<1> HIDE DEF d, part, rest, days, hours
<1>5. rest \in 0..(DayLength - 1)
  <2>1. (d - 1 - h) * HourLength >= 0 /\ (d - 1 - h) * HourLength \in Int
    BY <1>1, <1>2, AtLeastOnce, ProductInt
  <2>2. ((d - 1) - h) * HourLength = (d - 1) * HourLength - part
    BY <1>1, <1>2, <1>4, Distribute
  <2>3. (d - 1) * HourLength = d * HourLength - 1 * HourLength
    BY <1>1, <1>2, Distribute
  <2>4. (d - 1) * HourLength \in Int /\ 1 * HourLength = HourLength
    BY <1>1, <1>2, ProductInt
  <2>5. part <= DayLength - HourLength
    BY <1>1, <1>2, <1>3, <1>4, <2>1, <2>2, <2>3, <2>4
  <2> QED
    BY <1>1, <1>3, <1>4, <2>5
<1>6. time % DayLength = rest
  <2>1. time = q * DayLength + rest
    BY <1>2, <1>3, <1>4
  <2>2. DayLength \in Nat \ {0}
    BY <1>1
  <2>3. (q * DayLength + rest) % DayLength = rest
    BY <1>5, <2>2, Unique
  <2> QED
    BY <2>1, <2>3
<1>7. rest \div HourLength = h
  BY <1>1, <1>2, <1>4, Unique
<1>8. time % HourLength = m
  <2> DEFINE all == hours + h
  <2>1. all * HourLength = hours * HourLength + part /\ all \in Int
    BY <1>1, <1>2, <1>3, <1>4, Distribute
  <2> HIDE DEF all
  <2>2. (all * HourLength + m) % HourLength = m
    BY <1>1, <2>1, Unique
  <2>3. time = all * HourLength + m
    BY <1>2, <1>3, <1>4, <2>1
  <2> QED
    BY <2>2, <2>3
<1> QED
  BY <1>6, <1>7, <1>8

\* What parses is an hour and a minute of the day.
LEMMA ParsedInRange ==
  ASSUME NEW t \in TypedForms, Parses(t)
  PROVE  ParseHour(t) \in 0..(2 * HalfDay - 1) /\ t.minute \in 0..(HourLength - 1)
<1>1. HalfDay \in Nat \ {0} /\ HourLength \in Nat \ {0}
  BY DayTyped
<1>2. t.hour \in Nat /\ t.minute \in Nat /\ t.meridiem \in {"none", "am", "pm"}
  BY DEF TypedForms
<1>3. t.hour % HalfDay \in 0..(HalfDay - 1)
  <2> DEFINE hour == t.hour
  <2>1. hour \in Int
    BY <1>2
  <2> HIDE DEF hour
  <2>2. hour % HalfDay \in 0..(HalfDay - 1)
    BY <1>1, <2>1, Division
  <2> QED
    BY <2>2 DEF hour
<1>4. t.minute \in 0..(HourLength - 1)
  <2>1. t.minute < HourLength
    BY DEF Parses
  <2> QED
    BY <1>1, <1>2, <2>1
<1>5. CASE t.meridiem = "none"
  BY <1>1, <1>2, <1>4, <1>5 DEF Parses, ParseHour
<1>6. CASE t.meridiem = "am"
  BY <1>1, <1>2, <1>3, <1>4, <1>6 DEF ParseHour
<1>7. CASE t.meridiem = "pm"
  BY <1>1, <1>2, <1>3, <1>4, <1>7 DEF ParseHour
<1> QED
  BY <1>2, <1>5, <1>6, <1>7

\* A time that parses reads as it was typed, on any day.
LEMMA ReadsAsTyped ==
  ASSUME NEW t \in TypedForms, Parses(t), NEW q \in Int,
         NEW time, time = q * DayLength + ParseHour(t) * HourLength + t.minute
  PROVE  Reads(time, t.meridiem) = t
<1> DEFINE h == ParseHour(t)
<1>1. h \in 0..(2 * HalfDay - 1) /\ t.minute \in 0..(HourLength - 1)
  BY ParsedInRange
<1>2. (time % DayLength) \div HourLength = h /\ time % HourLength = t.minute
  BY <1>1, Decompose
<1>3. /\ HalfDay \in Nat \ {0} /\ t.hour \in Nat /\ t.minute \in Nat
      /\ t.meridiem \in {"none", "am", "pm"}
      /\ t = [hour |-> t.hour, minute |-> t.minute, meridiem |-> t.meridiem]
  BY DayTyped DEF TypedForms
<1> HIDE DEF h
<1>4. Reads(time, t.meridiem) =
        [hour     |-> IF t.meridiem = "none" THEN h
                      ELSE IF h % HalfDay = 0 THEN HalfDay ELSE h % HalfDay,
         minute   |-> t.minute,
         meridiem |-> IF t.meridiem = "none" THEN "none"
                      ELSE IF h < HalfDay THEN "am" ELSE "pm"]
  BY <1>2 DEF Reads
<1>5. CASE t.meridiem = "none"
  <2>1. h = t.hour
    BY <1>5 DEF h, ParseHour
  <2> QED
    BY <1>3, <1>4, <1>5, <2>1
<1>6. CASE t.meridiem # "none"
  <2>1. t.hour \in 1..HalfDay
    BY <1>6 DEF Parses
  <2>2. /\ t.hour % HalfDay = IF t.hour = HalfDay THEN 0 ELSE t.hour
        /\ t.hour % HalfDay \in 0..(HalfDay - 1)
    <3>1. CASE t.hour = HalfDay
      BY <1>3, <3>1, Face
    <3>2. CASE t.hour # HalfDay
      <4>1. t.hour \in 0..(HalfDay - 1)
        BY <1>3, <2>1, <3>2
      <4> QED
        BY <1>3, <3>2, <4>1, Face
    <3> QED
      BY <3>1, <3>2
  <2> DEFINE r == t.hour % HalfDay
  <2>3. r % HalfDay = r /\ (r + HalfDay) % HalfDay = r
    BY <1>3, <2>2, Face
  <2>4. CASE t.meridiem = "am"
    <3>1. h = r
      BY <2>4 DEF h, ParseHour
    <3>2. h % HalfDay = r /\ h < HalfDay
      BY <1>3, <2>2, <2>3, <3>1
    <3> HIDE DEF r
    <3>3. t.hour = IF r = 0 THEN HalfDay ELSE r
      BY <1>3, <2>1, <2>2 DEF r
    <3> QED
      BY <1>3, <1>4, <2>4, <3>2, <3>3
  <2>5. CASE t.meridiem = "pm"
    <3>1. h = r + HalfDay
      BY <2>5 DEF h, ParseHour
    <3>2. h % HalfDay = r /\ ~(h < HalfDay)
      BY <1>3, <2>2, <2>3, <3>1
    <3> HIDE DEF r
    <3>3. t.hour = IF r = 0 THEN HalfDay ELSE r
      BY <1>3, <2>1, <2>2 DEF r
    <3> QED
      BY <1>3, <1>4, <2>5, <3>2, <3>3
  <2> QED
    BY <1>3, <1>6, <2>4, <2>5
<1> QED
  BY <1>5, <1>6

--------------------------------------------------------------------------------
(* The display.                                                             *)

\* A zone has a largest offset: the first instant up to which it had none would
\* follow one up to which it has.
LEMMA OffsetsBounded == ASSUME ZoneOK PROVE \E b \in Int : \A u \in Instants : zone[u] <= b
<1> DEFINE Bounded(n) == \E b \in Int : \A u \in Earliest..(Earliest + n) : zone[u] <= b
           size == Horizon - Earliest
           bad == {n \in Nat : n <= size /\ ~Bounded(n)}
<1>1. size \in Nat /\ Earliest \in Int /\ Instants = Earliest..(Earliest + size)
  BY InstantsOrdered DEF Instants
<1>2. \A u \in Instants : zone[u] \in Int
  BY DEF ZoneOK
<1> HIDE DEF size
<1>3. bad = {}
  <2>1. SUFFICES ASSUME bad # {} PROVE FALSE
    OBVIOUS
  <2>2. PICK n \in bad : \A k \in bad : n <= k
    BY <2>1, LeastNat
  <2>3. n \in Nat /\ n <= size /\ ~Bounded(n)
    OBVIOUS
  <2>4. Earliest + n \in Instants /\ zone[Earliest + n] \in Int
    BY <1>1, <1>2, <2>3
  <2>5. CASE n = 0
    BY <1>1, <2>3, <2>4, <2>5
  <2>6. CASE n # 0
    <3>1. Bounded(n - 1)
      <4>1. n - 1 \in Nat /\ n - 1 <= size /\ ~(n <= n - 1)
        BY <1>1, <2>3, <2>6
      <4> QED
        BY <2>2, <4>1
    <3>2. PICK b \in Int : \A u \in Earliest..(Earliest + (n - 1)) : zone[u] <= b
      BY <3>1
    <3>3. PICK c \in Int : b <= c /\ zone[Earliest + n] <= c
      <4>1. b <= zone[Earliest + n] \/ zone[Earliest + n] <= b
        BY <2>4, <3>2
      <4> QED
        BY <2>4, <3>2, <4>1
    <3>4. ASSUME NEW u \in Earliest..(Earliest + n) PROVE zone[u] <= c
      <4>1. CASE u = Earliest + n
        BY <3>3, <4>1
      <4>2. CASE u # Earliest + n
        <5>1. u \in Earliest..(Earliest + (n - 1)) /\ u \in Instants
          BY <1>1, <2>3, <4>2
        <5> QED
          BY <1>2, <3>2, <3>3, <5>1
      <4> QED
        BY <4>1, <4>2
    <3> QED
      BY <2>3, <3>4
  <2> QED
    BY <2>5, <2>6
<1>4. Bounded(size)
  <2>1. size \notin bad
    <3> HIDE DEF bad
    <3> QED
      BY <1>3
  <2> QED
    BY <1>1, <2>1
<1> QED
  BY <1>1, <1>4

\* An instant that is sent for a civil time that the zone shows is shown as it.
LEMMA ZonedShows ==
  ASSUME ZoneOK, NEW civil \in Int, Showing(civil) # {}
  PROVE  ToZoned(civil) \in Int /\ Civil(ToZoned(civil)) = civil
<1>1. PICK b \in Int : \A u \in Instants : zone[u] <= b
  BY OffsetsBounded
<1>2. Showing(civil) \in SUBSET Int /\ \A t \in Showing(civil) : civil - b <= t
  <2>1. ASSUME NEW t \in Showing(civil) PROVE t \in Int /\ civil - b <= t
    <3>1. PICK u \in Instants : t = civil - zone[u]
      BY DEF Showing
    <3>2. zone[u] \in Int /\ zone[u] <= b
      BY <1>1 DEF ZoneOK
    <3> QED
      BY <3>1, <3>2
  <2> QED
    BY <2>1
<1>3. Least(Showing(civil)) \in Showing(civil)
  <2>1. civil - b \in Int
    BY <1>1
  <2> QED
    BY <1>2, <2>1, LeastInt
<1>4. ToZoned(civil) = Least(Showing(civil))
  BY DEF ToZoned
<1> QED
  BY <1>2, <1>3, <1>4 DEF Showing

\* Outside of the list's periods, and before the sync, a display that knows only
\* the list is right as long as the offset is the one at the sync.
LEMMA ShownIsCivil ==
  ASSUME ListInv, pc = "done", NEW t \in Int, t > 0, SameOffset(from, t)
  PROVE  Shown(t) = Civil(t)
<1>1. /\ ZoneOK /\ TypeOK /\ from \in Int /\ cursor \in Int
      /\ StandardOffset(from) \in Int /\ OffsetAt(t) \in Int
  BY ZoneTyped, StandardInt, OffsetInt, InstantsOrdered, DstAssumption DEF ListInv, TypeOK
<1>2. CursorInv /\ OrderInv /\ OffsetInv /\ CoveredInv /\ ChangeInv /\ entries # <<>>
  BY DEF ListInv, CursorInv
<1>3. entries \in Seq(Entries)
  BY <1>1 DEF TypeOK, Entries
<1>4. OffsetAt(t) = OffsetAt(from)
  <2>1. t \in IF from <= t THEN from..t ELSE t..from
    BY <1>1
  <2> QED
    BY <2>1 DEF SameOffset
<1>5. CASE \E i \in DOMAIN entries : InEffect(entries[i], t)
  <2> DEFINE i == CHOOSE i \in DOMAIN entries : InEffect(entries[i], t)
  <2>1. i \in DOMAIN entries /\ InEffect(entries[i], t)
    BY <1>5
  <2>2. Shown(t) = t + StandardOffset(from) + entries[i].offset
    BY <1>5 DEF Shown, ZoneEntry
  <2> HIDE DEF i
  <2>3. entries[i] \in Entries /\ i \in Int /\ 1 <= i /\ i <= Len(entries)
    BY <1>3, <2>1
  <2>4. entries[i].offset \in Int /\ entries[i].starting \in Int /\ entries[i].starting <= t
    BY <1>1, <2>1, <2>3, InstantsOrdered DEF Entries, InEffect
  <2>5. StandardOffset(from) + entries[i].offset = OffsetAt(t)
    <3>1. CASE t >= from
      BY <1>2, <2>1, <3>1 DEF OffsetInv
    <3>2. CASE t < from
      <4>1. CASE i = 1
        BY <1>1, <1>2, <1>4, <2>4, <4>1 DEF ChangeInv
      <4>2. CASE i # 1
        <5>1. i - 1 \in DOMAIN entries /\ i - 1 # Len(entries) /\ entries[i - 1] \in Entries
          BY <1>3, <2>3, <4>2
        <5>2. entries[i].starting = entries[i - 1].until /\ entries[i - 1].until # None
          BY <1>2, <2>1, <4>2, <5>1 DEF OrderInv
        <5>3. entries[i - 1].until > from
          BY <1>1, <1>2, <3>2, <5>1, <5>2 DEF OrderInv, Ends
        <5> QED
          BY <1>1, <2>4, <3>2, <5>2, <5>3
      <4> QED
        BY <4>1, <4>2
    <3> QED
      BY <1>1, <3>1, <3>2
  <2> QED
    BY <1>1, <2>2, <2>4, <2>5 DEF Civil
<1>6. CASE ~\E i \in DOMAIN entries : InEffect(entries[i], t)
  <2>1. Last.until # None /\ ~(t < Last.until)
    BY <1>2, <1>6 DEF CoveredInv
  <2>2. /\ from < cursor /\ Last.until = Wire(cursor)
        /\ \E u \in from..cursor : OffsetAt(u) # OffsetAt(cursor)
    BY <1>2, <2>1 DEF CursorInv
  <2>3. cursor <= t
    BY <1>1, <2>1, <2>2 DEF Wire
  <2>4. \A u \in from..cursor : OffsetAt(u) = OffsetAt(from)
    <3>1. \A u \in from..t : OffsetAt(u) = OffsetAt(from)
      BY <1>1, <2>2, <2>3 DEF SameOffset
    <3>2. \A u \in from..cursor : u \in from..t
      BY <1>1, <2>3
    <3> QED
      BY <3>1, <3>2
  <2>5. cursor \in from..cursor
    BY <1>1, <2>2
  <2> QED
    BY <2>2, <2>4, <2>5
<1> QED
  BY <1>5, <1>6

\* What is sent in place of the clock.
SentInv ==
  /\ typed = None \/ typed \in TypedForms
  /\ began \in Int
  /\ stage = "list" /\ typed # None => Parses(typed) /\ written = Wire(ToZoned(TypedCivil))

\* Nothing has been sent when the sync starts.
LEMMA SentInitial == ManualInit => SentInv
<1>1. SUFFICES ASSUME ManualInit PROVE SentInv
  OBVIOUS
<1>2. from \in Int /\ (typed = None \/ typed \in TypedForms)
  <2>1. PICK s \in Situations : from = s.from /\ typed = s.typed
    BY <1>1 DEF ManualInit
  <2>2. s.from \in Froms /\ (s.typed = None \/ s.typed \in TypedForms)
    BY ManualAssumption
  <2> QED
    BY <2>1, <2>2, DstAssumption, InstantsOrdered
<1>3. began \in Int
  BY <1>1, <1>2, ManualAssumption DEF ManualInit
<1> QED
  BY <1>1, <1>2, <1>3 DEF ManualInit, SentInv

\* Only a time that parses is sent, and once the list is under way it stays.
LEMMA SentStep == SentInv /\ [ManualNext]_allVars => SentInv'
<1>1. SUFFICES ASSUME SentInv, [ManualNext]_allVars PROVE SentInv'
  OBVIOUS
<1>2. UNCHANGED <<zone, typed, began>>
  BY <1>1 DEF ManualNext, RejectTyped, SetManualTime, SetHostTime, WriteList, Next, AddPeriod,
              EndPeriod, AddOpenEnded, ListFull, input, vars, manualVars, allVars
<1>3. /\ ToZoned(TypedCivil)' = ToZoned(TypedCivil) /\ Parses(typed)' = Parses(typed)
  BY <1>2 DEF ToZoned, Showing, OffsetBefore, TypedCivil, Civil, OffsetAt, Parses, ParseHour
<1>4. CASE SetManualTime
  BY <1>1, <1>2, <1>3, <1>4 DEF SentInv, SetManualTime, Wire
<1>5. CASE RejectTyped \/ SetHostTime
  BY <1>1, <1>2, <1>5 DEF SentInv, RejectTyped, SetHostTime
<1>6. CASE WriteList \/ UNCHANGED allVars
  <2>1. UNCHANGED <<stage, written>>
    BY <1>6 DEF WriteList, allVars, manualVars
  <2> QED
    BY <1>1, <1>2, <1>3, <2>1 DEF SentInv, Wire
<1> QED
  BY <1>1, <1>4, <1>5, <1>6 DEF ManualNext

\* --time decides what is sent in every reachable state, if it was given.
THEOREM SentInvariant == ManualSpec => []SentInv
BY SentInitial, SentStep, PTL DEF ManualSpec

\* The display shows what was typed on a day without a change of the offset
\* between the sync and the time typed, in every zone, every form and every
\* capacity of the list.
THEOREM TypedOnSteadyDay == ManualSpec => []SteadyDayShown
<1>1. ListInv /\ SentInv => SteadyDayShown
  <2>1. SUFFICES ASSUME ListInv, SentInv, Synced, typed # None, written > 0,
                        Showing(TypedCivil) # {}, SameOffset(from, written)
                 PROVE  Reads(Shown(written), typed.meridiem) = typed
    BY DEF SteadyDayShown
  <2>2. /\ ZoneOK /\ pc = "done" /\ typed \in TypedForms /\ began \in Int
        /\ Parses(typed) /\ written = Wire(ToZoned(TypedCivil))
    BY <2>1, ZoneTyped DEF ListInv, SentInv, Synced
  <2> DEFINE q == Civil(began) \div DayLength
             h == ParseHour(typed)
  <2>3. q \in Int /\ DayLength \in Int /\ HourLength \in Int
    <3>1. Civil(began) \in Int
      BY <2>2, OffsetInt DEF Civil
    <3> QED
      BY <3>1, DayTyped, Division
  <2>4. h \in Int /\ typed.minute \in Int
    BY <2>2, ParsedInRange, DayTyped
  <2>5. TypedCivil = q * DayLength + h * HourLength + typed.minute
    BY DEF TypedCivil
  <2> HIDE DEF q
  <2>6. TypedCivil \in Int
    <3>1. q * DayLength \in Int /\ h * HourLength \in Int
      BY <2>3, <2>4, ProductInt
    <3> QED
      BY <2>4, <2>5, <3>1
  <2>7. ToZoned(TypedCivil) \in Int /\ Civil(ToZoned(TypedCivil)) = TypedCivil
    BY <2>1, <2>2, <2>6, ZonedShows
  <2>8. written = ToZoned(TypedCivil)
    BY <2>1, <2>2, <2>7 DEF Wire
  <2>9. Shown(written) = TypedCivil
    BY <2>1, <2>2, <2>7, <2>8, ShownIsCivil
  <2> QED
    BY <2>2, <2>3, <2>5, <2>9, ReadsAsTyped
<1> QED
  BY <1>1, BuildsList, ListInvariant, SentInvariant, PTL
================================================================================
