--------------------------- MODULE AslClassFilter ---------------------------
(***************************************************************************)
(* asl_class_filter_*: turns the classifier's stream of observations into  *)
(* letters.  A letter is accepted once it was observed often enough in a   *)
(* row, again only after enough release observations, and never sooner     *)
(* than the guard time after the letter before it.                         *)
(*                                                                         *)
(* An observation is a class and whether its confidence reaches the        *)
(* threshold; it is translated from one call of asl_class_filter_update.   *)
(***************************************************************************)
EXTENDS AslClasses

CONSTANTS
    stable_sample_count, release_sample_count,  \* config, as given
    repeat_guard_ms,
    CounterMax                                  \* UINT16_MAX

ASSUME FilterAssumption ==
    /\ CounterMax \in Nat \ {0}
    /\ stable_sample_count \in 0 .. CounterMax
    /\ release_sample_count \in 0 .. CounterMax
    /\ repeat_guard_ms \in 0 .. CounterMax

StableSamples  == NonzeroOrOne(stable_sample_count)
ReleaseSamples == NonzeroOrOne(release_sample_count)

VARIABLES
    stable_count, release_count, guard_ms_left, candidate_class, latched_class,
    \* history
    accepted_class,     \* the last letter accepted
    streak,             \* the letter observed last, and how often in a row
    releases,           \* release observations in a row, up to now
    release_gap,        \* the longest such row since the last letter accepted
    since_accepted,     \* time since then, up to the guard time
    returned            \* what the last call returned: the letter if true,
                        \* INVALID if false, OPEN if the call was advance_time

filterVars  == <<stable_count, release_count, guard_ms_left,
                 candidate_class, latched_class>>
historyVars == <<accepted_class, streak, releases, release_gap, since_accepted,
                 returned>>

FilterInit ==
    /\ stable_count = 0
    /\ release_count = 0
    /\ guard_ms_left = 0
    /\ candidate_class = INVALID
    /\ latched_class = OPEN
    /\ accepted_class = OPEN
    /\ streak = [class |-> OPEN, length |-> 0]
    /\ releases = 0
    /\ release_gap = 0
    /\ since_accepted = repeat_guard_ms
    /\ returned = OPEN

UpTo(bound, value) == IF value > bound THEN bound ELSE value

\* A mutant: the counter wraps instead of staying at its largest value.
WrappingIncrement(counter) == (counter + 1) % (CounterMax + 1)

Increment(counter) == UpTo(CounterMax, counter + 1)

GuardAfter(elapsed_ms) ==
    IF elapsed_ms >= guard_ms_left THEN 0 ELSE guard_ms_left - elapsed_ms

\* asl_class_filter_advance_time_ms
AdvanceTime(elapsed_ms) ==
    /\ guard_ms_left' = GuardAfter(elapsed_ms)
    /\ returned' = OPEN
    /\ since_accepted' = UpTo(repeat_guard_ms, since_accepted + elapsed_ms)
    /\ UNCHANGED <<stable_count, release_count, candidate_class, latched_class,
                   accepted_class, streak, releases, release_gap>>

ReleaseObservation(class, confident) ==
    \/ class = OPEN
    \/ ~confident
    \/ ~asl_class_has_static_action(class)

\* What the observation adds to the history.
HistoryOfRelease ==
    /\ streak' = [class |-> OPEN, length |-> 0]
    /\ releases' = UpTo(ReleaseSamples, releases + 1)
    /\ release_gap' = IF releases' > release_gap THEN releases' ELSE release_gap
    /\ returned' = INVALID
    /\ UNCHANGED <<accepted_class, since_accepted>>

StreakWith(class) ==
    IF streak.class = class
    THEN [streak EXCEPT !.length = UpTo(StableSamples, @ + 1)]
    ELSE [class |-> class, length |-> 1]

HistoryOfLetter(class) ==
    /\ streak' = StreakWith(class)
    /\ releases' = 0
    /\ returned' = INVALID
    /\ UNCHANGED <<accepted_class, release_gap, since_accepted>>

HistoryOfAccepted(class) ==
    /\ streak' = StreakWith(class)
    /\ releases' = 0
    /\ returned' = class
    /\ accepted_class' = class
    /\ release_gap' = 0
    /\ since_accepted' = 0

ForgetCandidate == candidate_class' = INVALID /\ stable_count' = 0

ObserveRelease(class, confident) ==
    /\ ReleaseObservation(class, confident)
    /\ ForgetCandidate
    /\ LET counted == Increment(release_count)
       IN  /\ release_count' = UpTo(ReleaseSamples, counted)
           /\ latched_class' = IF counted >= ReleaseSamples THEN OPEN
                               ELSE latched_class
    /\ UNCHANGED guard_ms_left
    /\ HistoryOfRelease

\* The same letter, not released since it was accepted.
ObserveLatched(class, confident) ==
    /\ ~ReleaseObservation(class, confident)
    /\ latched_class = class
    /\ release_count' = 0
    /\ ForgetCandidate
    /\ UNCHANGED <<guard_ms_left, latched_class>>
    /\ HistoryOfLetter(class)

\* A mutant: a new candidate keeps the count of the one before.
CountedAcrossLetters(class) == Increment(stable_count)

Counted(class) ==
    IF candidate_class = class THEN Increment(stable_count) ELSE 1

Acceptable(class) == Counted(class) >= StableSamples /\ guard_ms_left = 0

ObserveCandidate(class, confident) ==
    /\ ~ReleaseObservation(class, confident)
    /\ latched_class # class
    /\ ~Acceptable(class)
    /\ release_count' = 0
    /\ candidate_class' = class
    /\ stable_count' = Counted(class)
    /\ UNCHANGED <<guard_ms_left, latched_class>>
    /\ HistoryOfLetter(class)

\* A mutant: the guard is not restarted.
AcceptLetterUnguarded(class, confident) ==
    /\ ~ReleaseObservation(class, confident)
    /\ latched_class # class
    /\ Acceptable(class)
    /\ release_count' = 0
    /\ latched_class' = class
    /\ ForgetCandidate
    /\ UNCHANGED guard_ms_left
    /\ HistoryOfAccepted(class)

\* A mutant: the letter is not latched.
AcceptLetterUnlatched(class, confident) ==
    /\ ~ReleaseObservation(class, confident)
    /\ latched_class # class
    /\ Acceptable(class)
    /\ release_count' = 0
    /\ UNCHANGED latched_class
    /\ ForgetCandidate
    /\ guard_ms_left' = repeat_guard_ms
    /\ HistoryOfAccepted(class)

\* The call that returns true.
AcceptLetter(class, confident) ==
    /\ ~ReleaseObservation(class, confident)
    /\ latched_class # class
    /\ Acceptable(class)
    /\ release_count' = 0
    /\ latched_class' = class
    /\ ForgetCandidate
    /\ guard_ms_left' = repeat_guard_ms
    /\ HistoryOfAccepted(class)

\* asl_class_filter_update returning false
Observe(class, confident) ==
    \/ ObserveRelease(class, confident)
    \/ ObserveLatched(class, confident)
    \/ ObserveCandidate(class, confident)

FilterNext ==
    \/ \E elapsed_ms \in 0 .. CounterMax : AdvanceTime(elapsed_ms)
    \/ \E class \in Classes, confident \in BOOLEAN : Observe(class, confident)
    \/ \E class \in Letters : AcceptLetter(class, TRUE)

allFilterVars == <<filterVars, historyVars>>

FilterSpec == FilterInit /\ [][FilterNext]_allFilterVars

-----------------------------------------------------------------------------
(***************************************************************************)
(* Properties                                                              *)
(***************************************************************************)

\* Types; a guard or a count never exceeds what it is configured to.
FilterTypeOK ==
    /\ stable_count \in 0 .. CounterMax
    /\ release_count \in 0 .. ReleaseSamples
    /\ guard_ms_left \in 0 .. repeat_guard_ms
    /\ candidate_class \in Letters \cup {INVALID}
    /\ latched_class \in Letters \cup {OPEN}

Accepting == returned' \in Letters
Observing == returned' # OPEN

\* A letter is accepted only on a row of confident observations of that very
\* letter as long as configured, with no release and no other letter between.
AcceptedWasSteady ==
    [][Accepting => streak' = [class |-> returned', length |-> StableSamples]
      ]_allFilterVars

\* The same letter is accepted twice in a row only with a full row of release
\* observations between: flicker below the threshold does not type it twice.
RepeatNeedsRelease ==
    [][Accepting /\ returned' = accepted_class
          => release_gap >= ReleaseSamples]_allFilterVars

\* Two letters are never accepted closer together than the guard time.
GuardSeparatesLetters ==
    [][Accepting => since_accepted = repeat_guard_ms]_allFilterVars

\* A letter shown steadily is not missed: once the guard time is over, the
\* observation that completes its row, or any later one, leaves it accepted.
SteadyLetterAccepted ==
    [][Observing /\ streak'.length = StableSamples /\ since_accepted = repeat_guard_ms
          => latched_class' = streak'.class]_allFilterVars
=============================================================================
