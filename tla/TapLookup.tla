----------------------------- MODULE TapLookup -----------------------------
(***************************************************************************)
(* Where the Ruby file of a tap's formula or cask is looked for: in two    *)
(* repositories, on two branches of each, at some paths of each branch.    *)
(* The paths of a branch are asked for ahead, AheadLimit at a time, and    *)
(* their answers are taken in the order of the paths.  A cask with a plain *)
(* name has one place.                                                     *)
(***************************************************************************)
EXTENDS Naturals, FiniteSets

CONSTANTS
    TapBranches,   \* repositories and branches, in the order they are tried
    TapPaths,      \* paths of a branch
    AheadLimit,    \* requests under way and answers not taken yet, buffered(2)
    LookupFaults   \* "status": another than 404, "send": no answer, "body"

ASSUME TapLookupAssumption ==
    /\ TapBranches \in Nat \ {0} /\ TapPaths \in Nat \ {0} /\ AheadLimit \in Nat \ {0}
    /\ LookupFaults \subseteq {"status", "send", "body"}

VARIABLES
    plain,      \* a cask with a plain name
    present,    \* the places that have the file
    branch,     \* the branch that is tried
    asked,      \* paths of it that were asked for
    heard,      \* answers that came: "none", "found", "missing", "status", "send"
    taken,      \* answers that were taken
    seen,       \* what was taken of all branches: "missing", "status", "send"
    answer,     \* the place whose file is the answer, or the failure
    disturbed   \* history: places whose answer was a fault

lookupVars == <<plain, present, branch, asked, heard, taken, seen, answer, disturbed>>

Places == (1..TapBranches) \X (1..TapPaths)
LookedBranches == IF plain THEN 1 ELSE TapBranches
LookedPaths == IF plain THEN 1 ELSE TapPaths
Heard == {"none", "found", "missing", "status", "send"}
NothingHeard == [p \in 1..TapPaths |-> "none"]

TapLookupTypeOK ==
    /\ plain \in BOOLEAN /\ present \subseteq Places /\ disturbed \subseteq Places
    /\ branch \in 1..TapBranches
    /\ asked \in 0..TapPaths /\ taken \in 0..asked
    /\ heard \in [1..TapPaths -> Heard]
    /\ seen \subseteq {"missing", "status", "send"}
    /\ answer \in Places \cup {<<"none">>, <<"missing">>, <<"failed">>}

TapLookupInit ==
    /\ plain \in BOOLEAN
    /\ present \in SUBSET Places
    /\ branch = 1 /\ asked = 0 /\ heard = NothingHeard /\ taken = 0
    /\ seen = {}
    /\ answer = <<"none">>
    /\ disturbed = {}

Looking == answer = <<"none">>

\* buffered(2) starts a request when there is room, whatever has come before.
Ask ==
    /\ Looking
    /\ asked < LookedPaths /\ asked - taken < AheadLimit
    /\ asked' = asked + 1
    /\ UNCHANGED <<plain, present, branch, heard, taken, seen, answer, disturbed>>

\* The answers come in any order.
Hear(p) ==
    /\ Looking
    /\ p <= asked /\ heard[p] = "none"
    /\ \/ /\ heard' = [heard EXCEPT ![p] = IF <<branch, p>> \in present THEN "found" ELSE "missing"]
          /\ UNCHANGED disturbed
       \/ \E f \in LookupFaults \ {"body"} :
             /\ heard' = [heard EXCEPT ![p] = f]
             /\ disturbed' = disturbed \cup {<<branch, p>>}
    /\ UNCHANGED <<plain, present, branch, asked, taken, seen, answer>>

\* A file that was found ends the search, also when its body breaks off.
TakePath(p) ==
    /\ Looking
    /\ heard[p] # "none"
    /\ taken' = taken + 1
    /\ IF heard[p] = "found"
       THEN /\ \/ answer' = <<branch, p>> /\ UNCHANGED disturbed
               \/ /\ "body" \in LookupFaults
                  /\ answer' = <<"failed">>
                  /\ disturbed' = disturbed \cup {<<branch, p>>}
            /\ UNCHANGED seen
       ELSE /\ seen' = seen \cup {heard[p]}
            /\ UNCHANGED <<answer, disturbed>>
    /\ UNCHANGED <<plain, present, branch, asked, heard>>

\* A plausible bug: answers are taken as they come.
TakeAsHeard == \E p \in 1..TapPaths : taken < asked /\ TakePath(p)

TakeInOrder == taken < asked /\ TakePath(taken + 1)

\* The next branch, or the verdict: a name is missing when all that was heard is 404.
BranchEnds ==
    /\ Looking
    /\ taken = LookedPaths
    /\ IF branch < LookedBranches
       THEN /\ branch' = branch + 1 /\ asked' = 0 /\ taken' = 0 /\ heard' = NothingHeard
            /\ UNCHANGED answer
       ELSE /\ answer' = IF seen = {"missing"} THEN <<"missing">> ELSE <<"failed">>
            /\ UNCHANGED <<branch, asked, taken, heard>>
    /\ UNCHANGED <<plain, present, seen, disturbed>>

TapLookupNext == Ask \/ (\E p \in 1..TapPaths : Hear(p)) \/ TakeInOrder \/ BranchEnds

TapLookupSpec == TapLookupInit /\ [][TapLookupNext]_lookupVars

-----------------------------------------------------------------------------
(* Properties.                                                             *)

Before(a, b) == a[1] < b[1] \/ (a[1] = b[1] /\ a[2] < b[2])

\* get_tap_formula and get_tap_cask answer with the first place, in their order, that
\* has the file, and say it is missing when no place has it, in whatever order the
\* answers come.  A place whose request failed is passed over: the file of a later
\* branch or repository is taken for it.
TapAnswerIsFirst ==
    LET places == {c \in present : c[1] <= LookedBranches /\ c[2] <= LookedPaths} IN
    /\ answer \in Places => /\ answer \in places
                            /\ \A c \in places : Before(c, answer) => c \in disturbed
    /\ answer = <<"missing">> => places = {}
    /\ answer = <<"failed">> => disturbed # {}
=============================================================================
