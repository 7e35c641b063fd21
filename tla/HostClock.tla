------------------------------- MODULE HostClock -------------------------------
(***************************************************************************)
(* Whether the host's clock is trusted: clock_is_ntp_synchronized and      *)
(* sntp_offset (src/src/host.rs).  What a server does is external: its     *)
(* clock is right, its answer takes a while each way, may be lost, may     *)
(* belong to an earlier query, and may be none that counts.                *)
(***************************************************************************)
EXTENDS Integers

CONSTANTS Servers,    \* NTP_SERVERS: as many as are asked, in this order
          MaxOffset,  \* MAX_OFFSET_SECONDS
          Timeout,    \* read timeout of the socket
          Delays,     \* what one way may take
          Lateness    \* by how much an earlier query's answer may be late

ASSUME HostAssumption ==
  /\ Servers \in Nat /\ MaxOffset \in Nat /\ Timeout \in Nat
  /\ Delays \subseteq Nat /\ Lateness \subseteq Nat

\* The datagram that is received first: none in time, one that is short, not from
\* a server, unsynchronized, of an invalid stratum or before 1970, or an answer.
Reply ==
  {r \in [kind : {"none", "unusable", "answer"}, out : Delays, back : Delays, late : Lateness] :
     r.out + r.back <= Timeout}

\* An answer that does not echo the nonce is taken all the same.
Usable_AnyNonce(r) == r.kind = "answer"

\* Only an answer to this query echoes its nonce.
Usable(r) == r.kind = "answer" /\ r.late = 0

\* Twice the offset: the sum of both readings of the host's clock, which is ahead
\* by skew, less twice the server's time.
TwiceOffset(skew, r) == 2 * skew + r.back - r.out + 2 * r.late

Near(skew, r) == TwiceOffset(skew, r) \in -(2 * MaxOffset)..(2 * MaxOffset)

\* The first server with a usable answer decides; timedatectl only when there is
\* none.
Verdict(skew, replies, timedatectl) ==
  LET usable == {i \in 1..Servers : Usable(replies[i])}
  IN  IF usable = {} THEN IF timedatectl THEN "timedatectl" ELSE "no"
      ELSE IF \E i \in usable : Near(skew, replies[i]) /\ \A j \in usable : i <= j THEN "sntp"
      ELSE "no"

\* Every verdict that a host with this skew can get.
Verdicts(skew) ==
  {Verdict(skew, replies, timedatectl) : replies \in [1..Servers -> Reply], timedatectl \in BOOLEAN}

\* How far off a host can be whose clock passes: half of the longest round trip
\* counts as error of the measurement.
WithinReach(skew) == 2 * skew \in -(2 * MaxOffset + Timeout)..(2 * MaxOffset + Timeout)
================================================================================
