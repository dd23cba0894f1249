-------------------------- MODULE AslMotionLibrary --------------------------
(***************************************************************************)
(* The motion library put together the way its application uses it: the    *)
(* filter accepts letters from the classifier's observations and pushes    *)
(* them, the player takes the next one whenever it is idle.  The calls of  *)
(* the two sides interleave freely.                                        *)
(***************************************************************************)
EXTENDS AslClassFilter, AslActionQueue, AslActionPlayer

CONSTANT Elapsed      \* times, in ms, that may pass between two observations

ASSUME ElapsedAssumption == Elapsed \subseteq 0 .. CounterMax    \* uint16_t

libraryVars == <<allFilterVars, queueVars, playerVars>>

Init == FilterInit /\ QueueInit /\ PlayerInit

\* An observation that is not accepted.
Classify ==
    /\ \E class \in Classes, confident \in BOOLEAN : Observe(class, confident)
    /\ UNCHANGED <<queueVars, playerVars>>

\* An accepted letter is pushed; a full queue drops it.
ClassifyAndPush ==
    /\ \E class \in Letters :
          /\ AcceptLetter(class, TRUE)
          /\ IF HasRoom THEN Push(class) ELSE UNCHANGED queueVars
    /\ UNCHANGED playerVars

TimePasses ==
    /\ \E elapsed_ms \in Elapsed : AdvanceTime(elapsed_ms)
    /\ UNCHANGED <<queueVars, playerVars>>

\* A letter taken from the queue is started or, if the start is refused, lost.
PlayNext ==
    /\ ~active
    /\ \E class \in Classes :
          /\ Pop(class)
          /\ IF StartAccepted(class) THEN Start(class) ELSE UNCHANGED playerVars
    /\ UNCHANGED allFilterVars

Play == Tick /\ UNCHANGED <<allFilterVars, queueVars>>

Report == TakeCompleted /\ UNCHANGED <<allFilterVars, queueVars>>

Next == Classify \/ ClassifyAndPush \/ TimePasses \/ PlayNext \/ Play \/ Report

\* The player is driven at 1 kHz and polls the queue when it is idle; nothing
\* is assumed of the classifier.
Fairness == WF_libraryVars(Play) /\ WF_libraryVars(PlayNext)

Spec == Init /\ [][Next]_libraryVars /\ Fairness

-----------------------------------------------------------------------------

\* Types of the three parts.
LibraryTypeOK == FilterTypeOK /\ QueueTypeOK /\ PlayerTypeOK

\* The player only ever plays the oldest letter accepted, from its beginning,
\* and the queue hands a letter out for nothing else.
PlaysInOrder ==
    [][(action' # action /\ action' # INVALID) \/ count' < count
          => action' = Waiting[1] /\ ticks' = 0]_libraryVars

\* Every letter pushed is played in the end, whatever is shown meanwhile.
WaitingLetterPlayed ==
    \A class \in Letters :
        (\E i \in 1 .. count : Waiting[i] = class) ~> (active /\ action = class)
=============================================================================
