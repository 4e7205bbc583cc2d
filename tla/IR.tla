--------------------------------- MODULE IR ---------------------------------
(***************************************************************************)
(* The unified representation that every protocol is decoded into and      *)
(* encoded from.                                                           *)
(*                                                                         *)
(* A text is a sequence of words, the empty sequence standing for an       *)
(* absent or an empty string; so are signatures, and the JSON text of a    *)
(* tool's arguments, which is complete when its last word is the brace     *)
(* that closes it.  The separators that joining puts between texts are     *)
(* left out.  Scalar request fields that pass from one side to the other   *)
(* unchanged are a function from their names to their values.              *)
(***************************************************************************)
EXTENDS Integers, Sequences, FiniteSets, SequencesExt, Functions, FiniteSetsExt, TLC

CONSTANT None       \* an absent optional value, in the representation and on the wire

When(condition, seq) == IF condition THEN seq ELSE <<>>
Maps(f(_), seq) == [i \in DOMAIN seq |-> f(seq[i])]
OrElse(x, y) == IF x = None THEN y ELSE x
Minimum(a, b) == IF a <= b THEN a ELSE b
Maximum(a, b) == IF a >= b THEN a ELSE b

(***************************************************************************)
(* Content parts                                                           *)
(***************************************************************************)
Text(w)             == [t |-> "text", text |-> w]
Refusal(w)          == [t |-> "refusal", text |-> w]
Thinking(w, sig)    == [t |-> "thinking", text |-> w, sig |-> sig]
Redacted(d)         == [t |-> "redacted", data |-> d]
Media(kind, source) == [t |-> kind, source |-> source]     \* kind: image, audio, file
ToolUse(id, name, args, sig) ==
  [t |-> "tool_use", id |-> id, name |-> name, args |-> args, sig |-> sig]
ToolResult(id, name, content, failed) ==
  [t |-> "tool_result", id |-> id, name |-> name, content |-> content, failed |-> failed]
Opaque(protocol, v) == [t |-> "opaque", protocol |-> protocol, value |-> v]

\* The object in an argument text: an empty text is {}; one that does not
\* parse is kept as it is.
EmptyObject == <<"}">>
ArgsOf(w) == IF w = <<>> THEN EmptyObject ELSE w
IsComplete(w) == w # <<>> /\ w[Len(w)] = "}"

MediaKinds == {"image", "audio", "file"}
Only(parts, kinds) == LET Is(p) == p.t \in kinds IN SelectSeq(parts, Is)
Without(parts, kinds) == LET IsNot(p) == p.t \notin kinds IN SelectSeq(parts, IsNot)
AllText(parts) == \A i \in DOMAIN parts : parts[i].t = "text"
\* The words of the text parts (text_content, system_text, text).
WordsOf(parts) == FlattenSeq(Maps(LAMBDA p : p.text, Only(parts, {"text"})))
\* A part, if the text is not empty.
TextPart(w) == When(w # <<>>, <<Text(w)>>)
RefusalPart(w) == When(w # <<>>, <<Refusal(w)>>)

Message(role, content) == [role |-> role, content |-> content]

(***************************************************************************)
(* Media.  On the wire a source is a string: an http URL, a data URI or    *)
(* anything else ("bare": base64 without a prefix, a file's id).           *)
(***************************************************************************)
Source(k, v) == [k |-> k, v |-> v]       \* k: url, base64, file_id, text, or bare (Url of no URL)
Wire(form, v) == [form |-> form, v |-> v]

ParseDataUri(w) ==
  Source(CASE w.form = "data" -> "base64" [] w.form = "http" -> "url" [] OTHER -> "bare", w.v)

ToDataUri(s) ==
  Wire(CASE s.k \in {"base64", "text"} -> "data" [] s.k = "url" -> "http" [] OTHER -> "bare", s.v)

(***************************************************************************)
(* Reasoning: an effort or a budget of tokens, each derived from the other *)
(* when only the other is there.                                           *)
(***************************************************************************)
Reasoning(effort, budget, thoughts) == [effort |-> effort, budget |-> budget, thoughts |-> thoughts]

\* Mutant: a medium effort is a quarter.
BudgetOfQuarter(r, max) ==
  LET ceiling == OrElse(max, 32000)
      share   == CASE r.effort \in {"low", "medium"} -> ceiling \div 4 [] r.effort = "high" -> (ceiling * 4) \div 5
                   [] OTHER -> None
  IN  IF r.budget # None \/ ceiling <= 1024 \/ share = None THEN r.budget
      ELSE Minimum(Maximum(share, 1024), ceiling - 1)
BudgetOrFromEffort(r, max) ==
  LET ceiling == OrElse(max, 32000)
      share   == CASE r.effort = "low" -> ceiling \div 5
                   [] r.effort = "medium" -> ceiling \div 2
                   [] r.effort = "high" -> (ceiling * 4) \div 5
                   [] OTHER -> None
  IN  IF r.budget # None THEN r.budget
      ELSE IF ceiling <= 1024 \/ share = None THEN None
      ELSE Minimum(Maximum(share, 1024), ceiling - 1)

EffortOrFromBudget(r, max) ==
  LET ceiling == Maximum(OrElse(max, 32000), 1)
  IN  IF r.effort # None
      THEN CASE r.effort \in {"minimal", "none"} -> "minimal"
             [] r.effort \in {"low", "high"} -> r.effort
             [] OTHER -> "medium"
      ELSE IF r.budget = None THEN None
      ELSE CASE r.budget * 100 >= ceiling * 65 -> "high"
             [] r.budget * 100 >= ceiling * 35 /\ r.budget * 100 < ceiling * 65 -> "medium"
             [] OTHER -> "low"

(***************************************************************************)
(* Usage                                                                   *)
(***************************************************************************)
UsageFields == {"input", "output", "cached", "written", "reasoning"}
NoUsage == [f \in UsageFields |-> 0]
Usage(i, o, c, w, r) ==
  [input |-> i, output |-> o, cached |-> c, written |-> w, reasoning |-> r]
TotalOf(u) == u.input + u.output
IsEmpty(u) == u.input = 0 /\ u.output = 0
\* Mutant: the last report wins.
MergeLast(u, v) == IF v = None THEN u ELSE v
\* merge_max; a usage that is absent changes nothing.
MergeMax(u, v) == IF v = None THEN u ELSE [f \in UsageFields |-> Maximum(u[f], v[f])]
BillingNormalized(u, upstream) ==
  IF upstream = "messages" THEN [u EXCEPT !.input = @ + u.cached + u.written] ELSE u

(***************************************************************************)
(* Requests and responses                                                  *)
(***************************************************************************)
Roles == {"system", "user", "assistant", "tool"}
StopReasons == {"Stop", "MaxTokens", "StopSequence", "ToolUse", "ContentFilter", "Refusal",
                "PauseTurn", "Other"}
Choice(mode, name) == [mode |-> mode, name |-> name]
Unspecified == Choice("unspecified", <<>>)    \* or auto, required, none, tool

NoParams == [f \in {} |-> 0]
UnifiedRequest ==
  [system |-> <<>>, messages |-> <<>>, tools |-> <<>>, choice |-> Unspecified,
   params |-> NoParams, stop |-> <<>>, max |-> None, stream |-> FALSE, usage |-> FALSE,
   reasoning |-> None, format |-> None, ext |-> <<>>]

UnifiedResponse == [content |-> <<>>, stop |-> None, sequence |-> None, usage |-> NoUsage, ext |-> <<>>]

\* Extensions: what the representation has no name for, by protocol.  They
\* come back only in a body of their own protocol, and never over a field.
Field(kind, v) == [kind |-> kind, v |-> v]
Extension(protocol, fields) == Maps(LAMBDA f : [protocol |-> protocol, field |-> f], fields)
\* Mutant: whose field it is, is not looked at.
RestoredAny(ext, protocol, kind) ==
  Maps(LAMBDA x : x.field, SelectSeq(ext, LAMBDA x : x.field.kind = kind))
Restored(ext, protocol, kind) ==
  Maps(LAMBDA x : x.field, SelectSeq(ext, LAMBDA x : x.protocol = protocol /\ x.field.kind = kind))
=============================================================================
