------------------------------ MODULE IpLimiter ------------------------------
(***************************************************************************)
(* The relay's per-address request limiter: class IpLimiter of             *)
(* relay/src/index.ts and the charges the router makes to it.  Three       *)
(* buckets are counted in fixed windows of one hour kept in storage; an    *)
(* alarm erases the record after the last window.  The object is single    *)
(* threaded and its awaits are storage operations, so a call is one step.  *)
(* An alarm runs at its time or later (external).                          *)
(***************************************************************************)
EXTENDS Naturals

CONSTANTS
    Limit,      \* IP_LIMITS: [Bucket -> Nat]
    Window,     \* IP_WINDOW_MS
    MaxPull,    \* MAX_PULL_ITEMS
    MaxTime     \* bound on the clock

Bucket == {"create", "request", "pull"}

(* What the module assumes of its constants. *)
LimiterAssumption ==
    /\ Limit \in [Bucket -> Nat]
    /\ Window \in Nat \ {0}
    /\ MaxPull \in Nat \ {0}
    /\ MaxTime \in Nat

VARIABLES
    windows,    \* the stored record: [Bucket -> [start, count]]
    alarm,      \* the storage alarm, 0 when none is set
    now,        \* Date.now()
    \* History, read by no action of the limiter:
    opened,     \* when the hour now being charged to a bucket began
    granted     \* what was allowed in each bucket during that hour

vars == <<windows, alarm, now, opened, granted>>

(* The record that allowMany() assumes for a bucket that is not stored. *)
Expired == [start |-> 0, count |-> 0]

Init ==
    /\ windows = [b \in Bucket |-> Expired]
    /\ alarm = 0
    /\ now = Window     \* the clock is far past start = 0
    /\ opened = [b \in Bucket |-> 0]
    /\ granted = [b \in Bucket |-> 0]

(* The window is over: the next charge starts a new one. *)
IsOver(w) == now - w.start >= Window

(* Mutant of Charge: the end of the window is stored, not its start. *)
ChargeStoresEnd(b, w, cost) ==
    LET s == IF IsOver(w) THEN [start |-> now + Window, count |-> 0] ELSE w
        n == s.count + cost
    IN  [s EXCEPT !.count = IF n > Limit[b] THEN Limit[b] + 1 ELSE n]

(* allowMany(), loop body.  The count saturates one above the limit: no    *)
(* larger count is told apart.                                             *)
Charge(b, w, cost) ==
    LET s == IF IsOver(w) THEN [start |-> now, count |-> 0] ELSE w
        n == s.count + cost
    IN  [s EXCEPT !.count = IF n > Limit[b] THEN Limit[b] + 1 ELSE n]

(* The buckets a request charges; cost 0 means not charged. *)
Charged(charges) == {b \in Bucket : charges[b] > 0}

(* Mutant of WindowsAfter: the charge that starts a window is not counted. *)
FirstChargeFree(charges) ==
    [b \in Bucket |->
        IF b \in Charged(charges)
        THEN Charge(b, windows[b], IF IsOver(windows[b]) THEN 0 ELSE charges[b])
        ELSE windows[b]]

(* allowMany(): every charged bucket is counted, over the limit or not. *)
WindowsAfter(charges) ==
    [b \in Bucket |->
        IF b \in Charged(charges) THEN Charge(b, windows[b], charges[b])
        ELSE windows[b]]

(* allowMany(): allowed when every charged bucket is within its limit. *)
Allowed(charges) ==
    \A b \in Charged(charges) : WindowsAfter(charges)[b].count <= Limit[b]

(* allowMany(): some charged bucket started a new window. *)
Started(charges) == \E b \in Charged(charges) : IsOver(windows[b])

(* Mutant of AlarmAfter: the alarm is only set when there is none. *)
AlarmOnce(charges) == IF alarm = 0 THEN now + Window ELSE alarm

(* allowMany(): the alarm moves only when a window starts. *)
AlarmAfter(charges) == IF Started(charges) THEN now + Window ELSE alarm

(* The hours the history counts in: an hour begins with the first charge   *)
(* after the previous one ended, whatever the limiter has stored.          *)
HourOver(b) == now - opened[b] >= Window

AllowMany(charges) ==
    /\ windows' = WindowsAfter(charges)
    /\ alarm' = AlarmAfter(charges)
    /\ opened' = [b \in Bucket |->
                    IF b \in Charged(charges) /\ HourOver(b) THEN now ELSE opened[b]]
    /\ granted' = [b \in Bucket |->
                    IF b \notin Charged(charges) THEN granted[b]
                    ELSE (IF HourOver(b) THEN 0 ELSE granted[b])
                         + (IF Allowed(charges) THEN charges[b] ELSE 0)]
    /\ UNCHANGED now

(* fetch(), info() and batchPull(): what each kind of request is charged. *)
OtherRequest == [create |-> 0, request |-> 1, pull |-> 0]
CreateRequest == [create |-> 1, request |-> 1, pull |-> 0]
PullRequest(n) == [create |-> 0, request |-> 1, pull |-> n]

(* alarm(): deleteAll() takes the record and the alarm. *)
Alarm ==
    /\ alarm # 0 /\ now >= alarm
    /\ windows' = [b \in Bucket |-> Expired]
    /\ alarm' = 0
    /\ UNCHANGED <<now, opened, granted>>

Tick ==
    /\ now < MaxTime
    /\ now' = now + 1
    /\ UNCHANGED <<windows, alarm, opened, granted>>

Next ==
    \/ AllowMany(OtherRequest)
    \/ AllowMany(CreateRequest)
    \/ \E n \in 1..MaxPull : AllowMany(PullRequest(n))
    \/ Alarm
    \/ Tick

Spec == Init /\ [][Next]_vars

-----------------------------------------------------------------------------
TypeOK ==
    /\ windows \in [Bucket -> [start : Nat, count : Nat]]
    /\ alarm \in Nat
    /\ now \in Nat
    /\ opened \in [Bucket -> Nat]
    /\ granted \in [Bucket -> Nat]
    /\ \A b \in Bucket : windows[b].start <= now /\ opened[b] <= now

(* allowMany() grants each address at most IP_LIMITS[b] units of bucket b  *)
(* in an hour, counting hours from the requests themselves and not from    *)
(* the stored record: neither a refused request, nor a request charged to  *)
(* two buckets, nor the alarm that erases the record loosens the limit.    *)
LimitHolds == \A b \in Bucket : granted[b] <= Limit[b]

(* The comment on allowMany(): "when the alarm fires, no window is still   *)
(* running".  A charge made less than an hour into a window is on record.  *)
NoRunningWindowErased ==
    [][\A b \in Bucket :
          windows'[b] = Expired /\ windows[b] # Expired => IsOver(windows[b])]_vars

(* The comment on allowMany(): the alarm is always "the latest window's    *)
(* start plus one hour".  So no stored record outlives its last window for *)
(* want of an alarm, and none is erased by an alarm left from before.      *)
AlarmAtLastWindow ==
    \/ /\ alarm = 0
       /\ \A b \in Bucket : windows[b] = Expired
    \/ /\ \E b \in Bucket : alarm = windows[b].start + Window
       /\ \A b \in Bucket : windows[b].start + Window <= alarm
=============================================================================
