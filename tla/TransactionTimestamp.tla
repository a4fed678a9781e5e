------------------------- MODULE TransactionTimestamp -------------------------
(***************************************************************************)
(* The contract's clock, and the window of one stored manifest read on it. *)
(*                                                                         *)
(* A transaction carries the instant of its consensus as ISO-8601 text: a  *)
(* wall clock reading with a UTC offset and a fraction of a second.  The   *)
(* contract keeps whole seconds since the epoch (_transaction_timestamp)   *)
(* and compares them with issued_at and expires_at.  IssuerRegistry and    *)
(* DatasetBond start from those seconds: this module is about what they    *)
(* are seconds of.                                                         *)
(*                                                                         *)
(* Instants are counted in ticks, TicksPerSecond of them to the second.    *)
(* External: successive transactions do not go back in time, and whoever   *)
(* writes the text may choose any offset.                                  *)
(***************************************************************************)
EXTENDS Integers

CONSTANTS
    TicksPerSecond,     \* microseconds, in the code
    SecondsPerDay,
    Offsets,            \* UTC offsets, in seconds, less than a day either way
    issued_at,          \* the stored window, in seconds
    expires_at,
    FirstInstant,       \* bounds of the instants, in ticks; 0 is the epoch
    LastInstant

ASSUME CalendarAssumption ==
    /\ TicksPerSecond \in Nat \ {0}
    /\ SecondsPerDay \in Nat \ {0}
    /\ Offsets \subseteq Int
    /\ \A o \in Offsets : o > -SecondsPerDay /\ o < SecondsPerDay

ASSUME InstantsAssumption == FirstInstant \in Int /\ LastInstant \in Int

ASSUME WindowAssumption ==
    issued_at \in Nat /\ expires_at \in Nat /\ expires_at > issued_at

VARIABLES
    instant,    \* when the latest transaction was decided
    reading,    \* the latest accepted one: its instant and what was made of it
    level       \* how the manifest then stood in its window

clockVars == <<instant, reading, level>>

Instants == FirstInstant..LastInstant

-----------------------------------------------------------------------------
(* datetime: a day, a second of the day and a fraction, read off a wall    *)
(* clock that runs ahead of UTC by the offset.  "naive" has no offset, and *)
(* "invalid" is no ISO-8601 text, or no text at all.                       *)

WallClock(i, offset) ==
    LET local == i + offset * TicksPerSecond
        second == local \div TicksPerSecond
    IN  [form     |-> "aware",
         day      |-> second \div SecondsPerDay,
         second   |-> second % SecondsPerDay,
         fraction |-> local % TicksPerSecond,
         offset   |-> offset]

\* The texts that may stand for instant i.
Stamps(i) ==
    {WallClock(i, o) : o \in Offsets}
      \cup {[WallClock(i, 0) EXCEPT !.form = f] : f \in {"naive", "invalid"}}

\* Mutant: the wall clock is read without converting it to UTC.
LocalSeconds(raw) == raw.day * SecondsPerDay + raw.second

\* Mutant: the fraction is rounded up to a whole second.
RoundedSeconds(raw) ==
    raw.day * SecondsPerDay + raw.second - raw.offset
      + (IF raw.fraction = 0 THEN 0 ELSE 1)

\* Mutant: int(delta.total_seconds()), which truncates towards the epoch.
TruncatedSeconds(raw) ==
    LET floor == raw.day * SecondsPerDay + raw.second - raw.offset
    IN  IF floor < 0 /\ raw.fraction # 0 THEN floor + 1 ELSE floor

\* delta.days * 86_400 + delta.seconds, delta normalised after the conversion.
UtcSeconds(raw) ==
    LET delta == raw.day * SecondsPerDay + raw.second - raw.offset
        days == delta \div SecondsPerDay
    IN  days * SecondsPerDay + (delta % SecondsPerDay)

IsAcceptedTime(raw) == raw.form = "aware" /\ UtcSeconds(raw) >= 0

\* Mutant: a manifest is still good in the second after expires_at.
GraceLevel(now) ==
    IF now < issued_at THEN "NOT_YET_VALID"
    ELSE IF now > expires_at + 1 THEN "EXPIRED"
    ELSE "IN_WINDOW"

\* The two comparisons of _authenticate_stored_manifest.
WindowLevel(now) ==
    IF now < issued_at THEN "NOT_YET_VALID"
    ELSE IF now > expires_at THEN "EXPIRED"
    ELSE "IN_WINDOW"

-----------------------------------------------------------------------------
ClockInit ==
    /\ instant \in Instants
    /\ reading = << >>
    /\ level = "NOT_EVALUATED"

\* A transaction that reads the clock and looks at the window.
Evaluate(later, raw) ==
    /\ IsAcceptedTime(raw)
    /\ reading' = <<[instant |-> later, seconds |-> UtcSeconds(raw)]>>
    /\ level' = WindowLevel(UtcSeconds(raw))

\* A transaction whose time is refused writes nothing.
Refuse(raw) == ~IsAcceptedTime(raw) /\ UNCHANGED <<reading, level>>

Transact(later, raw) ==
    /\ instant <= later
    /\ instant' = later
    /\ Evaluate(later, raw) \/ Refuse(raw)

ClockNext == \E later \in Instants : \E raw \in Stamps(later) : Transact(later, raw)

ClockSpec == ClockInit /\ [][ClockNext]_clockVars

-----------------------------------------------------------------------------
(* What the contract takes for now is the second its transaction fell in,  *)
(* never the one after it and never one before the epoch, whatever offset  *)
(* and fraction the instant was written with.                              *)
SecondsAreElapsed ==
    reading # << >> =>
        LET now == reading[1] IN
        /\ 0 <= now.instant
        /\ now.seconds * TicksPerSecond <= now.instant
        /\ now.instant < (now.seconds + 1) * TicksPerSecond

(* Dropping fractions does not blur the window by more than its last       *)
(* second, which counts whole: an evaluation is inside the window exactly  *)
(* from the tick of issued_at to the last tick of the second expires_at.   *)
WindowIsHonoured ==
    reading # << >> =>
        (level = "IN_WINDOW" <=>
           /\ issued_at * TicksPerSecond <= reading[1].instant
           /\ reading[1].instant < (expires_at + 1) * TicksPerSecond)

(* Transactions in order have times in order, whatever offsets they are    *)
(* written with, so stored times can be compared with later ones.          *)
ClockNeverRunsBack ==
    [][reading # << >> => reading'[1].seconds >= reading[1].seconds]_clockVars
=============================================================================
