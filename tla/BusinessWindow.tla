--------------------------- MODULE BusinessWindow ---------------------------
(***************************************************************************)
(* The business day (src/state/business-window.ts, src/admin): the store   *)
(* keeps the four times that cut a Frankfurt day into windows, and derives *)
(* the current window from the clock whenever it is asked.  An "HH:mm"     *)
(* string compares as a number does, so a time is a natural number up to   *)
(* LastTime (23:59).                                                       *)
(***************************************************************************)
EXTENDS Integers

CONSTANTS LastTime,       \* the last minute of a day
          Updates,        \* the admin updates: some fields, with their times
          AdminTokenSet   \* is ADMIN_TOKEN configured?

ASSUME BusinessWindowAssumption ==
    /\ LastTime \in Nat /\ LastTime >= 3
    /\ AdminTokenSet \in BOOLEAN

VARIABLES day,   \* the stored business day
          now    \* the clock in Frankfurt

Times == 0 .. LastTime

WindowNames == {"START_OF_DAY", "OPEN_FOR_ALL", "END_OF_DAY", "CLOSED"}

TimeFields == {"sodStart", "ofaStart", "ofaEnd", "eodEnd"}

\* Any four times; an ordered one is what an update may leave (lines 228-241).
Days == [TimeFields -> Times]

Ordered(d) == /\ d.sodStart <= d.ofaStart
              /\ d.ofaStart <= d.ofaEnd
              /\ d.ofaEnd <= d.eodEnd

\* 00:00, 00:01, 23:58, 23:59: open for nearly all of the day.
DefaultDay == [sodStart |-> 0, ofaStart |-> 1,
               ofaEnd |-> LastTime - 1, eodEnd |-> LastTime]

-----------------------------------------------------------------------------
(* The current window and the one that follows it.                         *)

\* Mutant: the day ends where the next one starts.
NextWindowSkipping(name) ==
    [START_OF_DAY |-> "OPEN_FOR_ALL", OPEN_FOR_ALL |-> "END_OF_DAY",
     END_OF_DAY |-> "START_OF_DAY", CLOSED |-> "START_OF_DAY"][name]

NextWindowName(name) ==
    [START_OF_DAY |-> "OPEN_FOR_ALL", OPEN_FOR_ALL |-> "END_OF_DAY",
     END_OF_DAY |-> "CLOSED", CLOSED |-> "START_OF_DAY"][name]

\* businessWindows: where the daily cycle says each window starts.
StartTimeOf(d) == [START_OF_DAY |-> d.sodStart, OPEN_FOR_ALL |-> d.ofaStart,
                   END_OF_DAY |-> d.ofaEnd, CLOSED |-> d.eodEnd]

\* The first boundary the time has not reached decides.
CurrentName(d, t) ==
    CASE t < d.sodStart -> "CLOSED"
      [] ~(t < d.sodStart) /\ t < d.ofaStart -> "START_OF_DAY"
      [] ~(t < d.sodStart \/ t < d.ofaStart) /\ t < d.ofaEnd -> "OPEN_FOR_ALL"
      [] ~(t < d.sodStart \/ t < d.ofaStart \/ t < d.ofaEnd) /\ t < d.eodEnd
            -> "END_OF_DAY"
      [] OTHER -> "CLOSED"

\* A window announces its own bounds and the name of the next one.
CurrentWindow(d, t) ==
    LET name == CurrentName(d, t)
    IN  [name      |-> name,
         startTime |-> StartTimeOf(d)[name],
         endTime   |-> StartTimeOf(d)[NextWindowName(name)],
         nextName  |-> NextWindowName(name)]

IsBusinessOpen(d, t) == CurrentWindow(d, t).name # "CLOSED"

-----------------------------------------------------------------------------
(* The admin endpoints.                                                    *)

\* An update names some of the fields; the others keep the stored value.
Merged(d, update) ==
    [f \in TimeFields |-> IF f \in DOMAIN update THEN update[f] ELSE d[f]]

\* Mutant: the times an update leaves out are taken for the defaults.
ValidateAlone(update, d) == Ordered(Merged(DefaultDay, update))

\* Unknown fields, an empty body and ill-shaped times are refused as well:
\* the updates enumerated here are the ones that reach the last test.
ValidateBusinessDayUpdate(update, d) == Ordered(Merged(d, update))

ASSUME UpdatesAssumption ==
    \A update \in Updates : /\ DOMAIN update \subseteq TimeFields
                            /\ \A f \in DOMAIN update : update[f] \in Times

EnforceAdminToken(validToken) == ~AdminTokenSet \/ validToken

\* POST or PUT /admin/business-window: the token is tested first, the body is
\* awaited, and the day it is merged with is read after that.
AdminUpdate(update, validToken) ==
    /\ EnforceAdminToken(validToken)
    /\ ValidateBusinessDayUpdate(update, day)
    /\ day' = Merged(day, update)
    /\ UNCHANGED now

\* POST /admin/reset, as far as the day goes.
AdminReset(validToken) ==
    /\ EnforceAdminToken(validToken)
    /\ day' = DefaultDay
    /\ UNCHANGED now

\* The wall clock: a minute later, or moved by a change of summer time.
NextMinute(t) == IF t = LastTime THEN 0 ELSE t + 1

Tick == /\ now' = NextMinute(now)
        /\ UNCHANGED day

ClockMoved == /\ now' \in Times
              /\ UNCHANGED day

WindowInit == day = DefaultDay /\ now \in Times

WindowStep ==
    \/ Tick
    \/ ClockMoved
    \/ \E validToken \in BOOLEAN :
         \/ \E update \in Updates : AdminUpdate(update, validToken)
         \/ AdminReset(validToken)

-----------------------------------------------------------------------------
(* What the day promises.                                                  *)

\* The half-open intervals of the documentation (business-window.ts:11-14).
InWindow(d, t, name) ==
    CASE name = "START_OF_DAY" -> d.sodStart <= t /\ t < d.ofaStart
      [] name = "OPEN_FOR_ALL" -> d.ofaStart <= t /\ t < d.ofaEnd
      [] name = "END_OF_DAY"   -> d.ofaEnd <= t /\ t < d.eodEnd
      [] name = "CLOSED"       -> d.eodEnd <= t \/ t < d.sodStart

\* Whatever sequence of partial updates and resets the day went through, it is
\* ordered, so at every minute exactly one window of the documented intervals
\* holds, and it is the one the code computes (currentWindow).  An update that
\* is checked without the stored fields it is merged with would break it.
WindowsPartitionDay ==
    /\ day \in Days
    /\ Ordered(day)
    /\ \A t \in Times, name \in WindowNames :
          InWindow(day, t, name) <=> CurrentWindow(day, t).name = name

\* The end a window announces is the minute it ends, and the window it
\* announces as next is the one that comes, unless that one is empty; while
\* nobody changes the day or the clock.  (The bounds of CLOSED wrap; a day of
\* four equal times is closed at every minute.)
AnnouncedWindowComes ==
    [][LET w == CurrentWindow(day, now)
           v == CurrentWindow(day, now')
       IN  day' = day /\ now' = NextMinute(now) /\ day.sodStart < day.eodEnd =>
              /\ w.name # v.name <=> now' = w.endTime
              /\ w.name # v.name =>
                    \/ v.name = w.nextName
                    \/ StartTimeOf(day)[w.nextName]
                         = StartTimeOf(day)[NextWindowName(w.nextName)]]_<<day, now>>
=============================================================================
