-------------------------------- MODULE DstList --------------------------------
(***************************************************************************)
(* The DSTOffset list a sync sends: build_dst_offset_list,                 *)
(* standard_offset_seconds and next_offset_transition (src/src/tz.rs).     *)
(*                                                                         *)
(* A zone is its UTC offset at every instant, constant before Earliest and *)
(* after Horizon; the tzdb also holds transitions that do not change the   *)
(* offset (marks).  Instant 0 is the Matter epoch.                         *)
(***************************************************************************)
EXTENDS Integers, Sequences

CONSTANTS Before,      \* instants before the Matter epoch
          Horizon,     \* the last instant at which a zone changes
          YearLength,  \* instants per year
          January,     \* the instants of the two probes in their year
          July,
          Zones,       \* offsets by instant
          Marks,       \* sets of instants with a bookkeeping transition
          Froms,       \* instants a list is built for
          Limits,      \* DSTOffsetListMaxSize of devices
          None         \* "valid until further notice"

Earliest == -Before
Instants == Earliest..Horizon

ASSUME DstAssumption ==
  /\ Before \in Nat
  /\ Horizon \in Nat /\ YearLength \in Nat \ {0}
  /\ January \in 0..(YearLength - 1) /\ July \in 0..(YearLength - 1)
  /\ Zones \subseteq [Instants -> Int]
  /\ Marks \subseteq SUBSET Instants
  /\ Froms \subseteq Instants /\ Limits \subseteq Nat
  /\ None \notin Int

VARIABLES
  zone, marks, from, limit,  \* what the list is built for (never changes)
  entries,                   \* the list so far
  current,                   \* current_offset
  start,                     \* valid_starting
  cursor,                    \* the last transition taken from the iterator
  pc                         \* "loop" or "done"

input == <<zone, marks, from, limit>>
vars == <<zone, marks, from, limit, entries, current, start, cursor, pc>>

Least(S) == CHOOSE t \in S : \A u \in S : t <= u
Smaller(a, b) == IF a <= b THEN a ELSE b

OffsetAt(t) ==
  IF t > Horizon THEN zone[Horizon] ELSE IF t < Earliest THEN zone[Earliest] ELSE zone[t]

\* MatterMicros::from_timestamp: what is before the Matter epoch becomes 0.
Wire(t) == IF t < 0 THEN 0 ELSE t

\* TimeZone::following: the transitions after t, bookkeeping included.
Following(t) ==
  {u \in Instants : u > t /\ (u \in marks \/ OffsetAt(u) # OffsetAt(u - 1))}

\* The next of them whose offset is not the given one.
Changes(t, offset) == {u \in Following(t) : OffsetAt(u) # offset}

\* The smaller of the mid-January and mid-July offsets of the year of t.
StandardOffset(t) ==
  LET year == (t \div YearLength) * YearLength
  IN  Smaller(OffsetAt(year + January), OffsetAt(year + July))

\* What status reports: when the offset changes next, if it does.
NextOffsetTransition(t) ==
  IF Changes(t, OffsetAt(t)) = {} THEN None ELSE Least(Changes(t, OffsetAt(t)))

\* A minimum of one entry, whatever the device says it can hold.
Capacity_AsGiven == limit
Capacity == IF limit < 1 THEN 1 ELSE limit

--------------------------------------------------------------------------------
(* The loop.                                                                *)

EnterLoop ==
  /\ entries = <<>>
  /\ current = OffsetAt(from)
  /\ start = 0
  /\ cursor = from
  /\ pc = "loop"

Init ==
  /\ zone \in Zones /\ marks \in Marks /\ from \in Froms /\ limit \in Limits
  /\ EnterLoop

Entry(until) ==
  [offset |-> current - StandardOffset(from), starting |-> start, until |-> until]

\* The start of the next period is forgotten.
EndPeriod_StartKept(at) ==
  /\ entries' = Append(entries, Entry(Wire(at)))
  /\ cursor' = at
  /\ current' = OffsetAt(at)
  /\ UNCHANGED <<input, start, pc>>

\* The period in effect ends at a transition and the next one starts there.
EndPeriod(at) ==
  /\ entries' = Append(entries, Entry(Wire(at)))
  /\ start' = Wire(at)
  /\ cursor' = at
  /\ current' = OffsetAt(at)
  /\ UNCHANGED <<input, pc>>

\* Any transition of the table ends the period.
AddPeriod_EveryTransition ==
  /\ pc = "loop" /\ Len(entries) < Capacity
  /\ Following(cursor) # {}
  /\ EndPeriod(Least(Following(cursor)))

\* One entry more than the device can hold.
AddPeriod_OneTooMany ==
  /\ pc = "loop" /\ Len(entries) <= Capacity
  /\ Changes(cursor, current) # {}
  /\ EndPeriod(Least(Changes(cursor, current)))

\* The period up to the next real change of the offset.
AddPeriod ==
  /\ pc = "loop" /\ Len(entries) < Capacity
  /\ Changes(cursor, current) # {}
  /\ EndPeriod(Least(Changes(cursor, current)))

\* No change follows: the last entry holds until further notice.
AddOpenEnded ==
  /\ pc = "loop" /\ Len(entries) < Capacity
  /\ Changes(cursor, current) = {}
  /\ entries' = Append(entries, Entry(None))
  /\ pc' = "done"
  /\ UNCHANGED <<input, current, start, cursor>>

ListFull ==
  /\ pc = "loop" /\ Len(entries) >= Capacity
  /\ pc' = "done"
  /\ UNCHANGED <<input, entries, current, start, cursor>>

Next == AddPeriod \/ AddOpenEnded \/ ListFull

Spec == Init /\ [][Next]_vars

--------------------------------------------------------------------------------
(* Properties.                                                              *)

TypeOK ==
  /\ zone \in Zones /\ marks \in Marks /\ from \in Froms /\ limit \in Limits
  /\ entries \in Seq([offset : Int, starting : 0..Horizon, until : 0..Horizon \cup {None}])
  /\ Len(entries) <= Capacity
  /\ current \in Int /\ start \in 0..Horizon /\ cursor \in Instants
  /\ pc \in {"loop", "done"}

InEffect(e, t) == t >= e.starting /\ (e.until = None \/ t < e.until)

\* A device that holds the list and the zone's standard offset shows the zone's
\* local time at every instant the list covers from the sync on, whatever the
\* tzdb records between two changes (build_dst_offset_list).
LocalTimeRight ==
  \A i \in DOMAIN entries, t \in from..(Horizon + YearLength) :
    t >= 0 /\ InEffect(entries[i], t) =>
      StandardOffset(from) + entries[i].offset = OffsetAt(t)

\* The periods tile the time from the epoch on: the first starts there, there is no
\* gap and no overlap, only the last may be open-ended, every other one ends after
\* the sync, and a finished list is not empty, even for a device that claims room for
\* none.  A host clock before the epoch (with --time no NTP gate keeps it away) costs
\* periods of no length, clamped to the epoch, and nothing else.
Contiguous ==
  /\ pc = "done" => entries # <<>>
  /\ \A i \in DOMAIN entries :
       /\ entries[i].starting = IF i = 1 THEN 0 ELSE entries[i - 1].until
       /\ entries[i].until = None => i = Len(entries)
       /\ entries[i].until # None =>
            /\ entries[i].until > from
            /\ \/ entries[i].until > entries[i].starting
               \/ from < 0 /\ entries[i].starting = 0 /\ entries[i].until = 0

\* The end of a first period, as it is sent.
FirstEnd ==
  IF NextOffsetTransition(from) = None THEN None ELSE Wire(NextOffsetTransition(from))

\* No entry of the few a device can hold is spent on a transition that changes
\* nothing, none is left unused while a change follows, and the first ends when
\* status says the offset changes next (next_offset_transition).
NoEntryWasted ==
  /\ \A i \in DOMAIN entries : i > 1 => entries[i].offset # entries[i - 1].offset
  /\ entries # <<>> => entries[1].until = FirstEnd
  /\ pc = "done" /\ Len(entries) < limit => entries[Len(entries)].until = None
================================================================================
