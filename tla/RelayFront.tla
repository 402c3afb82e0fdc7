----------------------------- MODULE RelayFront -----------------------------
(***************************************************************************)
(* The two things the relay puts in front of its chains: the pull of many  *)
(* chains in one request (BatchPull) and the limiter of an address         *)
(* (IpLimiter), for BatchPull one of the ways to be told 429.  They share  *)
(* no state and stand side by side; their names would clash, and the       *)
(* limiter is an instance.                                                 *)
(***************************************************************************)
EXTENDS BatchPull

CONSTANTS Limit, Window, MaxPull, MaxTime

VARIABLES windows, alarm, now, opened, granted

limiterVars == <<windows, alarm, now, opened, granted>>

Limiter == INSTANCE IpLimiter

ASSUME RowsAssumption == BatchPullAssumption
ASSUME LimiterAssumption == Limiter!LimiterAssumption

-----------------------------------------------------------------------------
(* A round accounts for every chain once, a chain is missed only after a   *)
(* 429 or a failed request, and after a 429 nothing more is asked.         *)
RoundsAccount == [](TypeOK /\ RoundIsComplete) /\ QuietAfterLimit

(* allowMany() grants each address at most IP_LIMITS[b] units of bucket b  *)
(* in an hour, counting hours from the requests themselves: neither a      *)
(* refused request, nor a request charged to two buckets, nor the alarm    *)
(* that erases the record loosens the limit.                               *)
LimitHolds == Limiter!LimitHolds

(* alarm() erases no window that is still running: a charge made less than *)
(* an hour into a window is on record.                                     *)
NoRunningWindowErased == Limiter!NoRunningWindowErased
=============================================================================
