---------------------------- MODULE ContextWindow ----------------------------
(***************************************************************************)
(* What a conversation tells the model of itself: its messages, the ten     *)
(* that a new question loads (api/v1/endpoints/chat.py), and the messages   *)
(* that the context window makes of them (rag/context_window.py).           *)
(*                                                                          *)
(* A message has a role and a size in tokens, 0 for an empty one.  A text   *)
(* in a summary is clipped.                                                 *)
(***************************************************************************)
EXTENDS Integers, SequencesExt

CONSTANTS
    HistoryLimit,       \* messages that a question loads
    MaxTokens,          \* of the prompt
    TailWindow,         \* messages that are kept as they are
    MaxHistoryMessages, \* messages that are looked at
    MaxPairs, MaxTopics,\* what a summary tells of
    Floor,              \* least budget for the history
    Overhead, Clip,     \* size of a message besides its text, and of a clipped text
    Size,               \* sizes of messages
    Pinned,             \* sizes of system prompt, documents and question together
    MaxMessages,        \* of a conversation
    None

Message == [role : {"user", "assistant"}, size : Size]

ContextWindowAssumption ==
    /\ {HistoryLimit, MaxTokens, TailWindow, MaxHistoryMessages, MaxPairs, MaxTopics,
        Floor, Overhead, Clip, MaxMessages} \subseteq Nat \ {0}
    /\ Size \subseteq Nat /\ Pinned \subseteq Nat
    /\ HistoryLimit <= MaxHistoryMessages
    /\ TailWindow % 2 = 0 \* of whole exchanges
    /\ None \notin Message \cup [pairs : Seq(Message \X Message), size : Nat]

VARIABLES
    messages, \* of the conversation
    asked,    \* its last message is a question under way
    prompt    \* the history and the pinned size of the last prompt, and what it became

vars == <<messages, asked, prompt>>

TypeOK ==
    /\ messages \in Seq(Message)
    /\ asked \in BOOLEAN
    /\ prompt = None \/ (prompt.history \in Seq(Message) /\ prompt.pinned \in Pinned)

Init == messages = <<>> /\ asked = FALSE /\ prompt = None

---------------------------------------------------------------------------
SmallerOf(a, b) == IF a < b THEN a ELSE b
LargerOf(a, b) == IF a < b THEN b ELSE a

LastOf(s, n) == SubSeq(s, LargerOf(1, Len(s) - n + 1), Len(s))
AllButLast(s, n) == SubSeq(s, 1, Len(s) - n)

EstimateTokens(size) == LargerOf(1, size)
MessageTokens(m) == EstimateTokens(m.size) + Overhead

\* For the mutant: the newest message may exceed what is left.
FitTailLoosely(recent, budget) ==
    LET Take(m, t) ==
            IF t.full \/ t.used > budget
            THEN [t EXCEPT !.full = TRUE]
            ELSE [t EXCEPT !.used = @ + MessageTokens(m), !.kept = <<m>> \o @]
    IN  FoldRight(Take, recent, [full |-> FALSE, used |-> 0, kept |-> <<>>]).kept

\* The newest messages, until one does not fit.
FitTail(recent, budget) ==
    LET Take(m, t) ==
            IF t.full \/ t.used + MessageTokens(m) > budget
            THEN [t EXCEPT !.full = TRUE]
            ELSE [t EXCEPT !.used = @ + MessageTokens(m), !.kept = <<m>> \o @]
    IN  FoldRight(Take, recent, [full |-> FALSE, used |-> 0, kept |-> <<>>]).kept

\* Questions with the answers that follow them.  A question that is followed by
\* another, or by nothing, is left out.
Pairs(old) ==
    LET Pair(t, m) ==
            IF m.size = 0 THEN t
            ELSE IF m.role = "user" THEN [t EXCEPT !.question = m]
            ELSE IF t.question = None THEN t
            ELSE [question |-> None, pairs |-> Append(t.pairs, <<t.question, m>>)]
    IN  FoldLeft(Pair, [question |-> None, pairs |-> <<>>], old).pairs

Total(sizes) == FoldLeft(LAMBDA a, b : a + b, 0, sizes)
Clipped(size) == SmallerOf(size, Clip)

\* What has a text at all.
Texts(old) == FoldLeft(LAMBDA t, m : IF m.size = 0 THEN t ELSE Append(t, m), <<>>, old)

\* None, or a message of the system with a size and the pairs it tells of.
CompressOld(old) ==
    LET pairs == Pairs(old)
        told == SubSeq(pairs, 1, SmallerOf(MaxPairs, Len(pairs)))
        topics == SubSeq(Texts(old), 1, SmallerOf(MaxTopics, Len(Texts(old))))
    IN  IF pairs # <<>>
        THEN [pairs |-> told,
              size |-> 1 + Total([i \in DOMAIN told |->
                                    Clipped(told[i][1].size) + Clipped(told[i][2].size)])]
        ELSE IF Texts(old) = <<>> THEN None
        ELSE [pairs |-> <<>>, size |-> 1 + Total([i \in DOMAIN topics |-> Clipped(topics[i].size)])]

\* ChatContextWindow.fit_messages: a summary of what is old, if there is one, is there
\* whether it fits or not, and takes its size from the newer messages.
Budget(pinned) == LargerOf(Floor, MaxTokens - pinned)

FitMessages(history, pinned) ==
    LET capped == LastOf(history, MaxHistoryMessages)
        summary == IF Len(capped) <= TailWindow THEN None
                   ELSE CompressOld(AllButLast(capped, TailWindow))
        cost == IF summary = None THEN 0 ELSE MessageTokens(summary)
    IN  [summary |-> summary,
         tail |-> FitTail(LastOf(capped, TailWindow), Budget(pinned) - cost)]

---------------------------------------------------------------------------
(* The conversation.                                                        *)

\* The history is loaded oldest first, so it is that of the beginning.
LoadHistory == SubSeq(messages, 1, SmallerOf(HistoryLimit, Len(messages)))

\* The prompt with the history that fits, between what is pinned.
BuildRagMessages(history, pinned) ==
    [history |-> history, pinned |-> pinned, fitted |-> FitMessages(history, pinned)]

AskQuestion(size, pinned) ==
    /\ ~asked /\ Len(messages) < MaxMessages
    /\ size > 0
    /\ prompt' = BuildRagMessages(LoadHistory, pinned)
    /\ messages' = Append(messages, [role |-> "user", size |-> size])
    /\ asked' = TRUE

\* The model may answer nothing.
SaveAnswer(size) ==
    /\ asked /\ Len(messages) < MaxMessages
    /\ messages' = Append(messages, [role |-> "assistant", size |-> size])
    /\ asked' = FALSE
    /\ UNCHANGED prompt

\* The pipeline ends with an exception, or the client is gone: the question stays.
LoseAnswer ==
    /\ asked
    /\ asked' = FALSE
    /\ UNCHANGED <<messages, prompt>>

Clear ==
    /\ ~asked /\ messages # <<>>
    /\ messages' = <<>>
    /\ UNCHANGED <<asked, prompt>>

Next ==
    \/ \E size \in Size, pinned \in Pinned : AskQuestion(size, pinned)
    \/ \E size \in Size : SaveAnswer(size)
    \/ LoseAnswer
    \/ Clear

Spec == Init /\ [][Next]_vars

---------------------------------------------------------------------------
(* Properties of the last prompt.                                           *)

Tokens(s) == Total([i \in DOMAIN s |-> MessageTokens(s[i])])
Summary == prompt.fitted.summary
Kept == prompt.fitted.tail
SummaryTokens == IF Summary = None THEN 0 ELSE MessageTokens(Summary)

\* The history takes no more than its budget, but for a summary that does so alone;
\* and of the newest messages it keeps as many as fit.
NewestThatFit ==
    LET recent == LastOf(prompt.history, TailWindow)
        budget == Budget(prompt.pinned)
    IN  /\ Kept = LastOf(recent, Len(Kept))
        /\ SummaryTokens + Tokens(Kept) <= budget \/ (Kept = <<>> /\ Summary # None)
        /\ Len(Kept) < Len(recent) =>
              SummaryTokens + Tokens(LastOf(recent, Len(Kept) + 1)) > budget

Alternates(history) ==
    /\ Len(history) % 2 = 0
    /\ \A i \in DOMAIN history :
          history[i].size > 0 /\ (history[i].role = "user" <=> i % 2 = 1)

\* In a conversation where each question was answered every exchange is in the prompt:
\* what is older than the tail in the summary, and an answer in the tail never
\* without its question, unless the question would not fit.
ExchangesAreTold ==
    LET history == prompt.history
        old == Len(history) - SmallerOf(TailWindow, Len(history))
    IN  Alternates(history) =>
        /\ old > 0 => Summary # None /\ Summary.pairs =
              [i \in 1 .. SmallerOf(MaxPairs, old \div 2) |->
                  <<history[2 * i - 1], history[2 * i]>>]
        /\ Len(Kept) = SmallerOf(TailWindow, Len(history)) /\ Kept # <<>> =>
              Head(Kept).role = "user"

PromptTells == prompt # None => NewestThatFit /\ ExchangesAreTold

---------------------------------------------------------------------------
(* The inductive invariant.                                                 *)

\* The last prompt was made of a history that a question loads.
PromptInv ==
    prompt # None =>
        /\ Len(prompt.history) <= HistoryLimit
        /\ prompt.fitted = FitMessages(prompt.history, prompt.pinned)

IInv == TypeOK /\ PromptInv
=============================================================================
