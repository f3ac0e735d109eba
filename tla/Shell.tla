------------------------------- MODULE Shell -------------------------------
(***************************************************************************)
(* The shell's read-parse loop: read_line collects one line from fd 0, a   *)
(* byte at a time, and parse_line turns it into a pipeline, one token at a *)
(* time.  What running the pipeline does is module Pipeline.               *)
(*                                                                         *)
(* A byte is one of its lexical classes: "a" (any byte of a word), " " (a  *)
(* space or a tab), and the operators "|", ">" and "<".  A word is the     *)
(* interval <<first, last>> of the line it borrows.                        *)
(***************************************************************************)
EXTENDS Integers, Sequences, FiniteSets

CONSTANTS LINE_BUF_SIZE,        \* bytes read_line stores
          MAX_ARGS,             \* words of a stage
          MAX_PIPELINE_STAGES   \* stages of a line

VARIABLES shpc,    \* "read", "parse", "ok" or the ParseError
          line,    \* buf[..len]
          pos,     \* offset of the next byte to scan
          cur,     \* the stage being built
          stages,  \* the stages completed by a "|"
          anyTok   \* some token was seen

shvars == <<shpc, line, pos, cur, stages, anyTok>>

Chars == {"a", " ", "|", ">", "<"}
Redirects == {">", ">>", "<"}
None == <<>>
EmptyStage == [argv |-> <<>>, out |-> None, in |-> None]

ShInit == /\ shpc = "read" /\ line = <<>> /\ pos = 1
          /\ cur = EmptyStage /\ stages = <<>> /\ anyTok = FALSE

----------------------------------------------------------------------------
(* read_line *)

ReadByte(c) ==
    /\ shpc = "read"
    /\ Len(line) < LINE_BUF_SIZE
    /\ line' = Append(line, c)
    /\ UNCHANGED <<shpc, pos, cur, stages, anyTok>>

Backspace ==
    /\ shpc = "read" /\ line # <<>>
    /\ line' = SubSeq(line, 1, Len(line) - 1)
    /\ UNCHANGED <<shpc, pos, cur, stages, anyTok>>

EndLine ==
    /\ shpc = "read" /\ shpc' = "parse"
    /\ UNCHANGED <<line, pos, cur, stages, anyTok>>

----------------------------------------------------------------------------
(* next_token: the token at or after i and the offset just past it *)

IsSpace(c) == c = " "
IsOp(c) == c \in {"|", ">", "<"}

\* The first offset from i on whose byte is in no run of bytes satisfying Skip.
Past(i, Skip(_)) ==
    CHOOSE j \in i .. Len(line) + 1 :
        /\ \A k \in i .. j - 1 : Skip(line[k])
        /\ j <= Len(line) => ~ Skip(line[j])

InWord(c) == ~ IsSpace(c) /\ ~ IsOp(c)

Token(i) ==
    IF i > Len(line) THEN [kind |-> "none", next |-> i]
    ELSE IF line[i] = ">" /\ i < Len(line) /\ line[i + 1] = ">"
         THEN [kind |-> ">>", next |-> i + 2]
    ELSE IF IsOp(line[i]) THEN [kind |-> line[i], next |-> i + 1]
    ELSE [kind |-> "word", next |-> Past(i, InWord),
          word |-> <<i, Past(i, InWord) - 1>>]

NextToken(i) == Token(Past(i, IsSpace))

----------------------------------------------------------------------------
(* parse_line *)

Fail(error) ==
    /\ shpc' = error
    /\ UNCHANGED <<line, cur, stages>>

TakeWord ==
    LET tok == NextToken(pos) IN
    /\ shpc = "parse" /\ tok.kind = "word"
    /\ pos' = tok.next /\ anyTok' = TRUE
    /\ IF Len(cur.argv) = MAX_ARGS
       THEN Fail("TooManyArgs")
       ELSE /\ cur' = [cur EXCEPT !.argv = Append(@, tok.word)]
            /\ UNCHANGED <<shpc, line, stages>>

TakePipe ==
    LET tok == NextToken(pos) IN
    /\ shpc = "parse" /\ tok.kind = "|"
    /\ pos' = tok.next /\ anyTok' = TRUE
    /\ \/ cur.argv = <<>> /\ Fail("EmptyStage")
       \/ /\ cur.argv # <<>> /\ Len(stages) = MAX_PIPELINE_STAGES
          /\ Fail("TooManyStages")
       \/ /\ cur.argv # <<>> /\ Len(stages) < MAX_PIPELINE_STAGES
          /\ stages' = Append(stages, cur)
          /\ cur' = EmptyStage
          /\ UNCHANGED <<shpc, line>>

\* A mutant: the target is left for the next round, which takes it as a word.
TakeRedirectPeek ==
    LET tok    == NextToken(pos)
        target == NextToken(tok.next) IN
    /\ shpc = "parse" /\ tok.kind \in Redirects
    /\ anyTok' = TRUE
    /\ pos' = tok.next
    /\ \/ target.kind # "word" /\ Fail("MissingRedirectTarget")
       \/ /\ target.kind = "word"
          /\ cur' = IF tok.kind = "<"
                    THEN [cur EXCEPT !.in = target.word]
                    ELSE [cur EXCEPT !.out = <<target.word, tok.kind>>]
          /\ UNCHANGED <<shpc, line, stages>>

TakeRedirect ==
    LET tok    == NextToken(pos)
        target == NextToken(tok.next) IN
    /\ shpc = "parse" /\ tok.kind \in Redirects
    /\ anyTok' = TRUE
    /\ \/ target.kind # "word" /\ pos' = tok.next /\ Fail("MissingRedirectTarget")
       \/ /\ target.kind = "word"
          /\ pos' = target.next
          /\ cur' = IF tok.kind = "<"
                    THEN [cur EXCEPT !.in = target.word]
                    ELSE [cur EXCEPT !.out = <<target.word, tok.kind>>]
          /\ UNCHANGED <<shpc, line, stages>>

TakeEnd ==
    /\ shpc = "parse" /\ NextToken(pos).kind = "none"
    /\ UNCHANGED <<pos, anyTok>>
    /\ \/ ~ anyTok /\ Fail("Empty")
       \/ /\ anyTok /\ cur.argv = <<>>
          /\ Fail(IF stages # <<>> THEN "TrailingPipe" ELSE "EmptyStage")
       \/ /\ cur.argv # <<>> /\ Len(stages) = MAX_PIPELINE_STAGES
          /\ Fail("TooManyStages")
       \/ /\ cur.argv # <<>> /\ Len(stages) < MAX_PIPELINE_STAGES
          /\ stages' = Append(stages, cur)
          /\ shpc' = "ok"
          /\ UNCHANGED <<line, cur>>

\* The loop's body is over (the pipeline has run, or the error was printed).
Prompt ==
    /\ shpc \notin {"read", "parse"}
    /\ shpc' = "read" /\ line' = <<>> /\ pos' = 1
    /\ cur' = EmptyStage /\ stages' = <<>> /\ anyTok' = FALSE

ShNext == \/ \E c \in Chars : ReadByte(c)
          \/ Backspace \/ EndLine
          \/ TakeWord \/ TakePipe \/ TakeRedirect \/ TakeEnd
          \/ Prompt

ShSpec == ShInit /\ [][ShNext]_shvars

----------------------------------------------------------------------------
(* What a line means, read off its bytes without scanning it. *)

Words == {w \in (1 .. Len(line)) \X (1 .. Len(line)) :
             /\ w[1] <= w[2]
             /\ \A k \in w[1] .. w[2] : line[k] = "a"
             /\ w[1] > 1 => line[w[1] - 1] # "a"
             /\ w[2] < Len(line) => line[w[2] + 1] # "a"}

\* The last byte before k that is no space: 0 when there is none.
Before(k) == LET S == {j \in 1 .. k - 1 : line[j] # " "}
             IN IF S = {} THEN 0 ELSE CHOOSE j \in S : \A i \in S : i <= j

IsTarget(w) == Before(w[1]) # 0 /\ line[Before(w[1])] \in {">", "<"}
StageOf(w) == 1 + Cardinality({p \in 1 .. w[1] : line[p] = "|"})
ArgsOf(k) == {w \in Words : StageOf(w) = k /\ ~ IsTarget(w)}
Outs(k) == {w \in Words : StageOf(w) = k /\ IsTarget(w) /\ line[Before(w[1])] = ">"}
NStages == 1 + Cardinality({p \in 1 .. Len(line) : line[p] = "|"})

\* The operator before a target was ">>": two adjacent bytes.
Appends(w) == LET p == Before(w[1]) IN p > 1 /\ line[p - 1] = ">"

\* An operator with no word after it: a "<" or ">" that no word follows and
\* that is not the first half of a ">>", or a third ">" in a row.
Dangling ==
    \/ \E p \in 1 .. Len(line) :
          /\ line[p] \in {">", "<"}
          /\ ~ (line[p] = ">" /\ p < Len(line) /\ line[p + 1] = ">")
          /\ ~ \E w \in Words : Before(w[1]) = p
    \/ \E p \in 1 .. Len(line) - 2 : SubSeq(line, p, p + 2) = <<">", ">", ">">>

(***************************************************************************)
(* A line is parsed into what its bytes say: an accepted line has one      *)
(* stage more than it has pipes, each stage has, in order, the words       *)
(* between its pipes that follow no redirection operator, and its output   *)
(* goes to the target of the last ">" or ">>" among them; and a line is    *)
(* rejected only when some stage has no word, an operator has no target,   *)
(* or one of the two limits is exceeded.                                   *)
(***************************************************************************)
ParseExact ==
    /\ shpc = "ok" =>
         /\ Len(stages) = NStages
         /\ \A k \in 1 .. Len(stages) :
              LET s == stages[k] IN
              /\ {s.argv[i] : i \in DOMAIN s.argv} = ArgsOf(k)
              /\ Len(s.argv) = Cardinality(ArgsOf(k))
              /\ \A i \in 1 .. Len(s.argv) - 1 : s.argv[i][2] < s.argv[i + 1][1]
              /\ (s.out = None) = (Outs(k) = {})
              /\ s.out # None =>
                   /\ s.out[1] \in Outs(k)
                   /\ \A w \in Outs(k) : w[1] <= s.out[1][1]
                   /\ (s.out[2] = ">>") = Appends(s.out[1])
    /\ shpc \notin {"read", "parse", "ok"} =>
         \/ \E k \in 1 .. NStages : \/ ArgsOf(k) = {}
                                    \/ Cardinality(ArgsOf(k)) > MAX_ARGS
         \/ NStages > MAX_PIPELINE_STAGES
         \/ Dangling
============================================================================
