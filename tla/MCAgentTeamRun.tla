---------------------------- MODULE MCAgentTeamRun ----------------------------
(* Small instances of AgentTeamRun for TLC. *)
EXTENDS AgentTeamRun

CONSTANTS o1, o2

Trio == {"architect", "reviewer", "prCreator"}
\* A team without an architect starts with its first role.
Pair == {"reviewer", "prCreator"}
SlugIsKey == [r \in Role |-> r]

TwoRequests == {o1, o2}
OneRequest == {o1}

Quiet == [messages |-> {}, suggested |-> {}, resolves |-> FALSE,
          resolution |-> "none", asks |-> {}, done |-> TRUE]
Says(kind, to) == {[at |-> 1, kind |-> kind, to |-> to]}
Asks(target) == {[at |-> 0, target |-> target]}

\* Hand over to a peer, with or without a word, or with an approval.
Delegates(to) == [Quiet EXCEPT !.messages = Says("talk", to), !.done = FALSE]
Suggests(to) == [Quiet EXCEPT !.suggested = {to}]
Approves == [Quiet EXCEPT !.messages = Says("approval", "architect")]
\* Ask a peer, and clear what one was asked.
AsksPeer(to) == [Quiet EXCEPT !.messages = Says("question", to), !.done = FALSE]
Resolves == [Quiet EXCEPT !.resolves = TRUE]
\* Ask a human: through the resolution, or with a message.
NeedsInput(target) ==
  [Quiet EXCEPT !.resolution = "needs_input", !.asks = Asks(target), !.done = FALSE]
AsksHumanDirectly == [Quiet EXCEPT !.messages = Says("question", "operator")]
AsksTwice == [NeedsInput("operator") EXCEPT !.messages = Says("question", "operator")]
\* Want input without asking.
Hallucinates == [Quiet EXCEPT !.resolution = "needs_input"]

Dialogue == { Quiet, Delegates("reviewer"), Suggests("prCreator"), Approves,
              AsksPeer("reviewer"), AsksPeer("architect"), Resolves,
              NeedsInput("operator"), AsksHumanDirectly, AsksTwice, Hallucinates }

\* The ways to wake a PR creator, and the way to make the run wait.
OverlapDialogue ==
  { [Quiet EXCEPT !.suggested = Role], Delegates("prCreator"),
    [Quiet EXCEPT !.messages = Says("approval", "broadcast")],
    NeedsInput("operator") }

===============================================================================
