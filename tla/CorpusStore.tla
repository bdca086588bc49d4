----------------------------- MODULE CorpusStore -----------------------------
(***************************************************************************)
(* What a shared corpus directory promises to the programs that use it.    *)
(*                                                                         *)
(* The directory is a register.  It holds a whole corpus or nothing at     *)
(* all, it may become empty while one build replaces another, and it never *)
(* changes from one corpus to another in place.  A caller that loads the   *)
(* corpus looks at the register once, and if it is given an answer, every  *)
(* file of the answer belongs to the one corpus it saw at that moment, and *)
(* that corpus was extracted under the seed the caller asked for.          *)
(***************************************************************************)
CONSTANTS
    Run,        \* invocations of the programs that build or load the corpus
    Domain,     \* the corpus domains, one data file each
    Seed,       \* corpus policies, told apart by their seed
    Manifest,   \* the name of the manifest file
    None,       \* nothing there
    Corpora     \* the directories that may ever be found at the destination

VARIABLES
    corpus,     \* the directory at the destination, or None
    want,       \* want[r]: the seed run r asks for
    candidate,  \* candidate[r]: the version run r is loading, or None
    answer      \* answer[r]: what r was given for each domain, or None

vars == <<corpus, want, candidate, answer>>

Init ==
    /\ corpus \in Corpora \union {None}
    /\ want \in [Run -> Seed]
    /\ candidate = [r \in Run |-> None]
    /\ answer = [r \in Run |-> None]

Appear ==
    /\ corpus = None
    /\ corpus' \in Corpora
    /\ UNCHANGED <<want, candidate, answer>>

Vanish ==
    /\ corpus # None
    /\ corpus' = None
    /\ UNCHANGED <<want, candidate, answer>>

Open(r) ==
    /\ answer[r] = None
    /\ corpus # None
    /\ corpus[Manifest] # None
    /\ corpus[Manifest].seed = want[r]
    /\ candidate' = [candidate EXCEPT ![r] = corpus[Manifest]]
    /\ UNCHANGED <<corpus, want, answer>>

Close(r) ==
    /\ answer[r] = None
    /\ candidate[r] # None
    /\ answer' = [answer EXCEPT ![r] = [d \in Domain |-> candidate[r]]]
    /\ UNCHANGED <<corpus, want, candidate>>

Next ==
    \/ Appear
    \/ Vanish
    \/ \E r \in Run : Open(r) \/ Close(r)

Spec == Init /\ [][Next]_vars

=============================================================================
