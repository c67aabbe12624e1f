----------------------------- MODULE Playground -----------------------------
(***************************************************************************)
(* The chat of the console (pages/Playground.tsx): a question goes to the  *)
(* gateway with the conversation so far, and the answer arrives in pieces. *)
(* The handler keeps the conversation of its own start (`history`) and     *)
(* writes it, with the pieces so far, over whatever is on the screen.      *)
(***************************************************************************)
EXTENDS Naturals, Sequences

CONSTANTS Questions   \* bound: the questions asked, 1..n

VARIABLES
    db,   \* the key kept in sessionStorage: "" or "key"
    ui,   \* key, conversation, and the ghosts asked and cut: questions asked,
          \* and those whose stream failed
    net   \* the stream: where it is, and the handler's history and pieces

Keys == {"", "key"}
Question(n) == [of |-> n, text |-> "question"]
Answer(n, text) == [of |-> n, text |-> text]
Texts == {"blank", "pieces", "placeholder"}

Quiet == [at |-> "idle", history |-> <<>>, acc |-> ""]
Streaming == net.at # "idle"

Blank(key) == [key |-> key, msgs |-> <<>>, asked |-> 0, cut |-> {}]

Init ==
    /\ db = ""
    /\ ui = Blank("")
    /\ net = Quiet

\* The tab is loaded again: the key comes back, the conversation does not.
Reload ==
    /\ ui' = [Blank(db) EXCEPT !.asked = ui.asked]
    /\ net' = Quiet
    /\ UNCHANGED db

TypeKey(key) ==
    /\ key # ui.key
    /\ ui' = [ui EXCEPT !.key = key]
    /\ UNCHANGED <<db, net>>

\* send(); without a key or a model it only shows an error.
Ask ==
    LET n == ui.asked + 1  history == Append(ui.msgs, Question(n)) IN
    /\ ~Streaming /\ ui.key # "" /\ n \in Questions
    /\ db' = ui.key
    /\ ui' = [ui EXCEPT !.msgs = history, !.asked = n]
    /\ net' = [at |-> "asked", history |-> history, acc |-> ""]

\* The eraser works at any time.
Clear ==
    /\ ui.msgs # <<>>
    /\ ui' = [ui EXCEPT !.msgs = <<>>]
    /\ UNCHANGED <<db, net>>

-----------------------------------------------------------------------------
Current == net.history[Len(net.history)].of
With(text) == Append(net.history, Answer(Current, text))

\* The gateway begins its answer, and then sends pieces of it.
Opened ==
    /\ net.at = "asked"
    /\ net' = [net EXCEPT !.at = "open"]
    /\ ui' = [ui EXCEPT !.msgs = With("blank")]
    /\ UNCHANGED db

\* Mutant: a piece replaces the last message on the screen.
PieceInPlace ==
    /\ net.at = "open"
    /\ net' = [net EXCEPT !.acc = "pieces"]
    /\ ui' = [ui EXCEPT !.msgs = Append(IF @ = <<>> THEN @ ELSE SubSeq(@, 1, Len(@) - 1),
                                        Answer(Current, "pieces"))]
    /\ UNCHANGED db

Piece ==
    /\ net.at = "open"
    /\ net' = [net EXCEPT !.acc = "pieces"]
    /\ ui' = [ui EXCEPT !.msgs = With("pieces")]
    /\ UNCHANGED db

\* The stream ends; an answer without a piece is a placeholder.
Finished ==
    /\ net.at = "open"
    /\ ui' = IF net.acc = "" THEN [ui EXCEPT !.msgs = With("placeholder")] ELSE ui
    /\ net' = Quiet
    /\ UNCHANGED db

\* Mutant: an error leaves what has arrived on the screen.
CutOffKept ==
    /\ Streaming
    /\ ui' = [ui EXCEPT !.cut = @ \cup {Current}]
    /\ net' = Quiet
    /\ UNCHANGED db

\* A refusal, a broken connection, or 120 seconds: the question stays alone.
CutOff ==
    /\ Streaming
    /\ ui' = [ui EXCEPT !.msgs = net.history, !.cut = @ \cup {Current}]
    /\ net' = Quiet
    /\ UNCHANGED db

Next ==
    \/ Reload \/ Ask \/ Clear \/ \E key \in Keys : TypeKey(key)
    \/ Opened \/ Piece \/ Finished \/ CutOff

-----------------------------------------------------------------------------
Answers == {i \in DOMAIN ui.msgs : ui.msgs[i].text # "question"}

Messages == [of : Questions, text : Texts \cup {"question"}]

TypeOK ==
    /\ db \in Keys
    /\ ui \in [key : Keys, msgs : Seq(Messages), asked : Questions \cup {0}, cut : SUBSET Questions]
    /\ net \in [at : {"idle", "asked", "open"}, history : Seq(Messages), acc : {"", "pieces"}]

\* Every answer on the screen, and so every one sent back as context, follows
\* the question it answers, although the screen may be cleared at any moment
\* of a stream.
AnswerFollowsQuestion ==
    \A i \in Answers : i > 1 /\ ui.msgs[i - 1] = Question(ui.msgs[i].of)

\* Nothing of an answer that broke off is left, on the screen or in the
\* context of a later question.
NothingOfCutAnswers == \A i \in Answers : ui.msgs[i].of \notin ui.cut
=============================================================================
