--------------------------- MODULE DocumentSearch ---------------------------
(***************************************************************************)
(* From a reply of the model to the evidence the agent loop acts on: the   *)
(* reply is parsed, the tool's arguments are validated, doc.md is searched *)
(* (BM25 over its lines, then a plain substring search when BM25 finds     *)
(* nothing), and the result is normalised and classified.                  *)
(*                                                                         *)
(* Source: llm/openai_client.py, tools/base.py, tools/search_documents.py, *)
(* tools/retrieval_bm25.py and the orchestrator's _fast_tool_answer.  A    *)
(* text is a short sequence of characters.  Of a BM25 score only its order *)
(* and its sign matter: it is any number that is positive exactly when the *)
(* line and the query share a token (idf is always positive).              *)
(***************************************************************************)
EXTENDS Integers, Sequences, FiniteSets

CONSTANTS Replies,      \* replies of the model
          Documents,    \* contents of doc.md: sequences of lines, or NoFile
          NoFile,
          AsciiAlnum,   \* [A-Za-z0-9]
          Space,        \* the white space characters
          Lower,        \* a function from characters to characters
          MaxScore,     \* bound on the abstract scores
          MaxQuery,     \* 500
          MaxMatches    \* 20

VARIABLES reply, document,  \* the input
          pc,               \* "parse", "invoke", "search", "classify" or "done"
          score,            \* the score of each line
          matches,          \* numbers of the matching lines, best first
          outcome           \* what the loop sees

vars == <<reply, document, pc, score, matches, outcome>>

\* Lower case makes no white space and loses none, and no letter or digit is
\* white space.  An object of arguments has a query and a number.
Texts == Seq(DOMAIN Lower)

ASSUME SearchAssumption ==
    /\ \A c \in DOMAIN Lower : /\ Lower[c] \in DOMAIN Lower
                               /\ Lower[c] \in Space <=> c \in Space
    /\ AsciiAlnum \cap Space = {}
    /\ \A d \in Documents : d = NoFile \/ d \in Seq(Texts)
    /\ \A r \in Replies : r.args.object => r.args.query \in Texts /\ r.args.max_results \in Int
    /\ MaxScore \in Nat /\ MaxMatches \in Nat

-----------------------------------------------------------------------------
(***************************************************************************)
(* Texts.                                                                  *)
(***************************************************************************)
Lowered(text) == [i \in DOMAIN text |-> Lower[text[i]]]

\* The longest runs of characters of a class, and where they are.
Spans(text, class) ==
    {ij \in (DOMAIN text) \X (DOMAIN text) :
        /\ ij[1] <= ij[2] /\ \A k \in ij[1]..ij[2] : text[k] \in class
        /\ ij[1] - 1 \in DOMAIN text => text[ij[1] - 1] \notin class
        /\ ij[2] + 1 \in DOMAIN text => text[ij[2] + 1] \notin class}

Runs(text, class) == {SubSeq(text, ij[1], ij[2]) : ij \in Spans(text, class)}

Tokens(text) == {Lowered(t) : t \in Runs(text, AsciiAlnum)}

Words(text)  == Runs(Lowered(text), (DOMAIN Lower) \ Space)

Contains(hay, needle) == \E i \in 0..(Len(hay) - Len(needle)) :
                             SubSeq(hay, i + 1, i + Len(needle)) = needle

Blank(line) == \A i \in DOMAIN line : line[i] \in Space

-----------------------------------------------------------------------------
(***************************************************************************)
(* The two searches: line numbers, at most "most" of them.                 *)
(***************************************************************************)
Shares(line, query) == Tokens(line) \cap Tokens(query) # {}

ContainsAll(line, query) == /\ ~Blank(line) /\ Words(query) # {}
                            /\ \A w \in Words(query) : Contains(Lowered(line), w)

AtMost(most, s) == SubSeq(s, 1, IF most < Len(s) THEN most ELSE Len(s))

Ascending(numbers) ==
    CHOOSE s \in [1..Cardinality(numbers) -> numbers] : \A i, j \in DOMAIN s : i < j => s[i] < s[j]

\* A stable sort by descending score.
InFileOrderOnly(scores, i, j) == i < j                           \* seeded bug
Better(scores, i, j) == scores[i] > scores[j] \/ (scores[i] = scores[j] /\ i < j)

Ranked(lines, scores) ==
    CHOOSE s \in [1..Cardinality(lines) -> lines] :
        \A i, j \in DOMAIN s : i < j => Better(scores, s[i], s[j])

\* All lines are ranked and the first ones taken; of those the ones with a
\* positive score are results.
Positive(lines, scores) ==
    LET at == Ascending({k \in DOMAIN lines : scores[lines[k]] > 0})
    IN  [n \in DOMAIN at |-> lines[at[n]]]

NonBlank(doc) == {i \in DOMAIN doc : ~Blank(doc[i])}

Bm25(doc, query, most, scores) ==
    IF Tokens(query) = {} THEN <<>>
    ELSE Positive(AtMost(most, Ranked(NonBlank(doc), scores)), scores)

Legacy(doc, query, most) ==
    AtMost(most, Ascending({i \in DOMAIN doc : ContainsAll(doc[i], query)}))

NoFallback(doc, query, most, scores) == Bm25(doc, query, most, scores)  \* seeded bug
Search(doc, query, most, scores) ==
    LET ranked == Bm25(doc, query, most, scores)
    IN  IF ranked # <<>> THEN ranked ELSE Legacy(doc, query, most)

\* What bm25_score may return for the lines of a document.
ScoresOf(doc, query) ==
    {s \in [DOMAIN doc -> 0..MaxScore] :
        \A i \in DOMAIN doc : s[i] > 0 <=> Shares(doc[i], query)}

-----------------------------------------------------------------------------
Init == /\ reply \in Replies /\ document \in Documents
        /\ pc = "parse"
        /\ score = <<>> /\ matches = <<>> /\ outcome = "none"

Finish(what) == pc' = "done" /\ outcome' = what
                /\ UNCHANGED <<reply, document, score, matches>>

\* _try_parse_tool_call.  A reply that does not start with TOOL_CALL: or whose
\* rest is no JSON, no container, or lacks a key is an answer; `in` raises for
\* a number, true or null, and so does the lookup in a string or a list that
\* holds both words.
IsCall(r)  == r.prefix /\ r.json = "object"
Raises(r)  == r.prefix /\ r.json \in {"scalar", "keys_no_object"}

Parse == /\ pc = "parse"
         /\ IF Raises(reply) THEN Finish("raised")
            ELSE IF IsCall(reply)
            THEN pc' = "invoke" /\ UNCHANGED <<reply, document, score, matches, outcome>>
            ELSE Finish("finish")

\* The gateway: an unknown tool ends the loop, arguments that are no object or
\* that the schema rejects raise.
ValidArgs(args) == /\ args.object
                   /\ Len(args.query) \in 1..MaxQuery
                   /\ args.max_results \in 1..MaxMatches

Invoke == /\ pc = "invoke"
          /\ IF reply.tool # "search_documents" THEN Finish("not_registered")
             ELSE IF ~ValidArgs(reply.args) THEN Finish("raised")
             ELSE pc' = "search" /\ UNCHANGED <<reply, document, score, matches, outcome>>

Execute == /\ pc = "search"
           /\ pc' = "classify"
           /\ IF document = NoFile
              THEN UNCHANGED <<score, matches>>
              ELSE \E s \in ScoresOf(document, reply.args.query) :
                      /\ score' = s
                      /\ matches' = Search(document, reply.args.query, reply.args.max_results, s)
           /\ UNCHANGED <<reply, document, outcome>>

\* _fast_tool_answer and the loop's `if not matches`.  A missing file is an
\* error without matches, and the loop looks at the matches only.
Classify == /\ pc = "classify"
            /\ Finish(IF matches # <<>> THEN "snippet" ELSE "empty")

Next == Parse \/ Invoke \/ Execute \/ Classify

Spec == Init /\ [][Next]_vars

-----------------------------------------------------------------------------
MatchSet == {matches[k] : k \in DOMAIN matches}

\* A line answers a query when they share a token or when it contains every
\* word of the query, and there is one.  A blank line answers nothing.
Answers(line, query) ==
    \/ \E t \in Runs(line, AsciiAlnum), q \in Runs(query, AsciiAlnum) : Lowered(t) = Lowered(q)
    \/ /\ ~Blank(query) /\ ~Blank(line)
       /\ \A w \in Words(query) : Contains(Lowered(line), w)

\* The reference definition of the search.  The agent gets a snippet exactly
\* when some line of doc.md answers the query and reports a gap otherwise, a
\* missing file included; every match answers the query, no line twice, no
\* more than were asked for (whichever of the two searches found them).
EvidenceIsReal ==
    /\ outcome = "snippet" => document # NoFile
                              /\ \E i \in DOMAIN document : Answers(document[i], reply.args.query)
    /\ outcome = "empty" => document = NoFile
                            \/ \A i \in DOMAIN document : ~Answers(document[i], reply.args.query)
    /\ matches # <<>> => /\ Len(matches) <= reply.args.max_results
                         /\ Cardinality(MatchSet) = Len(matches)
                         /\ \A i \in MatchSet : Answers(document[i], reply.args.query)

\* The limit cuts off the worst lines: no line left out scores higher than one
\* returned by BM25, the first of them, which becomes the answer, is the best,
\* and the substring search is used only when no line shares a token.
BestFirst ==
    matches # <<>> =>
        /\ \A i \in DOMAIN score \ MatchSet, k \in MatchSet : score[k] >= score[i]
        /\ \A i \in DOMAIN score : score[matches[1]] >= score[i]
        /\ (\A k \in MatchSet : score[k] > 0) \/ (\A i \in DOMAIN score : score[i] = 0)

-----------------------------------------------------------------------------
(***************************************************************************)
(* The inductive invariant behind both: what the result was computed from. *)
(***************************************************************************)
Answered == pc = "classify" \/ outcome \in {"snippet", "empty"}

IInv == /\ reply \in Replies /\ document \in Documents
        /\ pc \in {"parse", "invoke", "search", "classify", "done"}
        /\ pc # "done" => outcome = "none"
        /\ pc = "search" \/ Answered => ValidArgs(reply.args)
        /\ Answered /\ document # NoFile =>
               /\ score \in ScoresOf(document, reply.args.query)
               /\ matches = Search(document, reply.args.query, reply.args.max_results, score)
        /\ ~Answered \/ document = NoFile => matches = <<>>
        /\ outcome = "snippet" => matches # <<>>
        /\ outcome = "empty" => matches = <<>>
=============================================================================
