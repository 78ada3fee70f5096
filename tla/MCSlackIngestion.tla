---------------------------- MODULE MCSlackIngestion ----------------------------
(* Small instances of SlackIngestion for TLC. *)
EXTENDS SlackIngestion

CONSTANTS e1, e2, c1, c2, customer, ourBot, f1, nobody, noFile, noConversation, noEvent

TwoEvents == {e1, e2}
TwoConversations == {c1, c2}
OneExisting == {c2}
OneFile == {f1}
TwoThenOne == [e \in TwoEvents |-> IF e = e1 THEN 2 ELSE 1]
OneThread == [e \in TwoEvents |-> c1]

Message(file) == [subtype |-> "none", bot |-> FALSE, user |-> customer, file |-> file]
Echo == [subtype |-> "bot_message", bot |-> TRUE, user |-> ourBot, file |-> noFile]
Edit == [subtype |-> "message_changed", bot |-> FALSE, user |-> customer, file |-> f1]

Both(first, second) == [e \in TwoEvents |-> IF e = e1 THEN first ELSE second]

\* A message with a file and its edit; a message without one, and our echo or another message.
SomePayloads ==
  { Both(Message(f1), Edit), Both(Message(noFile), Echo), Both(Message(noFile), Message(noFile)) }
=============================================================================
