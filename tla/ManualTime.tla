------------------------------ MODULE ManualTime -------------------------------
(***************************************************************************)
(* What the display of a device shows after a sync: the instant that is    *)
(* sent, from the host's clock or from --time (parse_wall_clock in         *)
(* src/src/time.rs, manual_instant in src/src/main.rs), together with the  *)
(* zone and the DST list of DstList, which sync_one builds for the host's  *)
(* own time (src/src/controller/ops.rs).                                   *)
(***************************************************************************)
EXTENDS DstList

CONSTANTS HalfDay,     \* hours from midnight to noon
          HourLength,  \* instants per hour
          Delay,       \* most instants between reading --time and building the list
          Situations   \* lists to build and the times typed for them

\* What parse_wall_clock makes of the text before it looks at the numbers.
TypedForms == [hour : Nat, minute : Nat, meridiem : {"none", "am", "pm"}]

ASSUME ManualAssumption ==
  /\ HalfDay \in Nat \ {0} /\ HourLength \in Nat \ {0} /\ Delay \in Nat
  /\ \A s \in Situations :
       /\ s.zone \in Zones /\ s.marks \in Marks /\ s.from \in Froms /\ s.limit \in Limits
       /\ s.typed = None \/ s.typed \in TypedForms

DayLength == 2 * HalfDay * HourLength

VARIABLES
  typed,    \* what --time says, None without it
  began,    \* the instant run_sync took for "today"
  written,  \* the utcTime sent, None before
  stage     \* "ask", "list", or "rejected"

manualVars == <<typed, began, written, stage>>
allVars == <<vars, manualVars>>

\* The hours of the twelve-hour form as they are.
ParseHour_AsTyped(t) == IF t.meridiem = "pm" THEN (t.hour % HalfDay) + HalfDay ELSE t.hour

\* Twelve is the first hour of both halves.
ParseHour(t) ==
  CASE t.meridiem = "pm" -> (t.hour % HalfDay) + HalfDay
    [] t.meridiem = "am" -> t.hour % HalfDay
    [] OTHER -> t.hour

\* parse_wall_clock: 1 to 12 with am or pm, 0 to 23 without.
Parses(t) ==
  /\ IF t.meridiem = "none" THEN t.hour < 2 * HalfDay ELSE t.hour \in 1..HalfDay
  /\ t.minute < HourLength

\* The local time of an instant, counted from the midnight of day 0.
Civil(t) == t + OffsetAt(t)

\* Instants at which the zone shows a civil time: two of them in a fold, none in
\* a gap.
Showing(civil) == {t \in {civil - zone[u] : u \in Instants} : Civil(t) = civil}

\* The offset before the gap that swallows a civil time.
OffsetBefore(civil) ==
  OffsetAt(Least({u \in Instants : u + OffsetAt(u - 1) <= civil /\ civil < Civil(u)}) - 1)

\* to_zoned: the earlier of two instants; in a gap, as if it had not come.
ToZoned(civil) ==
  IF Showing(civil) # {} THEN Least(Showing(civil)) ELSE civil - OffsetBefore(civil)

\* Today's date in the zone, at the time that was typed.
TypedCivil ==
  (Civil(began) \div DayLength) * DayLength + ParseHour(typed) * HourLength + typed.minute

ManualInit ==
  /\ \E s \in Situations :
       zone = s.zone /\ marks = s.marks /\ from = s.from /\ limit = s.limit /\ typed = s.typed
  /\ EnterLoop
  /\ began \in IF typed = None THEN {from} ELSE (from - Delay)..from
  /\ written = None
  /\ stage = "ask"

RejectTyped ==
  /\ stage = "ask" /\ typed # None
  /\ ~Parses(typed)
  /\ stage' = "rejected"
  /\ UNCHANGED <<vars, typed, began, written>>

\* The instant of --time, in place of the clock.
SetManualTime ==
  /\ stage = "ask" /\ typed # None
  /\ Parses(typed)
  /\ written' = Wire(ToZoned(TypedCivil))
  /\ stage' = "list"
  /\ UNCHANGED <<vars, typed, began>>

\* The host's clock, read after now_ts of sync_one.
SetHostTime ==
  /\ stage = "ask" /\ typed = None
  /\ \E t \in from..(from + Delay) : written' = Wire(t)
  /\ stage' = "list"
  /\ UNCHANGED <<vars, typed, began>>

\* write_zone_and_dst: the lists for now_ts.
WriteList == stage = "list" /\ Next /\ UNCHANGED manualVars

ManualNext == RejectTyped \/ SetManualTime \/ SetHostTime \/ WriteList

ManualSpec == ManualInit /\ [][ManualNext]_allVars

--------------------------------------------------------------------------------
(* Properties.                                                              *)

\* SetTimeZone carries one entry, the standard offset, valid since the epoch;
\* outside of every period of the list a device shows standard time.
ZoneEntry == StandardOffset(from)

\* The local time a device shows when it was set to t and holds the list.
Shown(t) ==
  t + ZoneEntry +
    (IF \E i \in DOMAIN entries : InEffect(entries[i], t)
       THEN entries[CHOOSE i \in DOMAIN entries : InEffect(entries[i], t)].offset
       ELSE 0)

\* A time of day in the form it was typed in.
Reads(time, form) ==
  LET hour == (time % DayLength) \div HourLength
  IN  [hour     |-> IF form = "none" THEN hour
                    ELSE IF hour % HalfDay = 0 THEN HalfDay ELSE hour % HalfDay,
       minute   |-> time % HourLength,
       meridiem |-> IF form = "none" THEN "none" ELSE IF hour < HalfDay THEN "am" ELSE "pm"]

Synced == stage = "list" /\ pc = "done"

\* The zone keeps one offset from a to b, either way round.
SameOffset(a, b) ==
  \A t \in (IF a <= b THEN a..b ELSE b..a) : OffsetAt(t) = OffsetAt(a)

\* The display shows what the operator typed, in every form and zone and on both
\* sides of a fold, as long as the typed time is not in a gap, the offset does not
\* change between the host's time and the time typed, and that time is after the
\* Matter epoch (parse_wall_clock, manual_instant, build_dst_offset_list; an earlier
\* time is sent as the epoch).
SteadyDayShown ==
  Synced /\ typed # None /\ written > 0 /\ Showing(TypedCivil) # {} /\ SameOffset(from, written) =>
    Reads(Shown(written), typed.meridiem) = typed

\* "Set this wall-clock time (e.g. 16:35 or 4:35pm, today in the configured time
\* zone)" (main.rs:110): a wall-clock time that today has is shown, on every day
\* after the Matter epoch.
TypedIsShown ==
  Synced /\ typed # None /\ began >= 0 /\ written > 0 /\ Showing(TypedCivil) # {} =>
    Reads(Shown(written), typed.meridiem) = typed
================================================================================
