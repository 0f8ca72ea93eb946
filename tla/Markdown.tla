------------------------------ MODULE Markdown ------------------------------
(***************************************************************************)
(* What a fetched HTML page becomes (src/src/web/fetch): the choice        *)
(* between its main content and the whole page (extract.rs, fetcher.rs)    *)
(* and the cleanup of the markdown chosen (clean.rs).                      *)
(*                                                                         *)
(* A line has its first character, the length of the run of that character *)
(* it begins with, what follows the run, and whether it holds something    *)
(* clean_inline rewrites.  Lengths are counted in lines.                   *)
(***************************************************************************)
EXTENDS Integers, SequencesExt

CONSTANTS
  MinLines,            \* min_markdown_chars
  ShareNum, ShareDen   \* MIN_LENGTH_FRACTION

ASSUME MarkdownAssumption ==
  MinLines \in Nat \ {0} /\ ShareNum \in Nat /\ ShareDen \in Nat \ {0}

Line == [ch : {"tick", "tilde", "bar", "text", ""}, run : Nat,
         tail : {"", "info", "backtick"}, noisy : BOOLEAN]
NoFence == [ch |-> "", run |-> 0]

(* A backtick fence's info string cannot contain a backtick. *)
FenceOpen(line) ==
  /\ line.ch \in {"tick", "tilde"} /\ line.run >= 3
  /\ ~(line.ch = "tick" /\ line.tail = "backtick")

(* A longer fence carries a shorter one inside it. *)
MutFenceClose(line, fence) == line.ch = fence.ch /\ line.run >= 3 /\ line.tail = ""
FenceClose(line, fence) ==
  line.ch = fence.ch /\ line.run >= fence.run /\ line.tail = ""

FenceOf(line) == [ch |-> line.ch, run |-> line.run]
Fenced(state) == state.fence # NoFence

CleanInline(line) == [line EXCEPT !.noisy = FALSE]
Blank == [ch |-> "", run |-> 0, tail |-> "", noisy |-> FALSE]

(* flush_pending_blank, then the line. *)
Push(state, line) ==
  [state EXCEPT !.out = (IF state.blank THEN Append(@, Blank) ELSE @) \o <<line>>,
                !.blank = FALSE]

CleanLine(state, line) ==
  IF Fenced(state)
  THEN [state EXCEPT !.out = Append(@, line),
                     !.fence = IF FenceClose(line, @) THEN NoFence ELSE @]
  ELSE IF FenceOpen(line) THEN [Push(state, line) EXCEPT !.fence = FenceOf(line)]
  ELSE IF line.ch = "bar" THEN Push(state, line)
  ELSE IF line.ch = "" THEN [state EXCEPT !.blank = state.out # <<>>]
  ELSE Push(state, CleanInline(line))

CleanStart == [out |-> <<>>, fence |-> NoFence, blank |-> FALSE]
Cleaned(lines) ==
  LET state[n \in 0..Len(lines)] ==
        IF n = 0 THEN CleanStart ELSE CleanLine(state[n - 1], lines[n])
  IN  state[Len(lines)]
CleanMarkdown(lines) == Cleaned(lines).out

(* The fenced blocks, fences included: a block left open runs to the end. *)
CollectLine(state, line) ==
  IF Fenced(state)
  THEN IF FenceClose(line, state.fence)
       THEN [blocks |-> Append(state.blocks, Append(state.open, line)),
             open |-> <<>>, fence |-> NoFence]
       ELSE [state EXCEPT !.open = Append(@, line)]
  ELSE IF FenceOpen(line)
  THEN [state EXCEPT !.open = <<line>>, !.fence = FenceOf(line)]
  ELSE state

CollectStart == [blocks |-> <<>>, open |-> <<>>, fence |-> NoFence]
Collected(lines) ==
  LET state[n \in 0..Len(lines)] ==
        IF n = 0 THEN CollectStart ELSE CollectLine(state[n - 1], lines[n])
  IN  state[Len(lines)]
LastBlock(end) == IF Fenced(end) THEN {end.open} ELSE {}
FencedBlocks(lines) == LET end == Collected(lines) IN ToSet(end.blocks) \cup LastBlock(end)

(* A lone | is a separator and not a row. *)
IsRow(line) == line.ch = "bar" /\ line.tail # ""
TableRows(lines) == {line \in ToSet(lines) : IsRow(line)}

(* A block is held line by line; the code looks for its text, which a line *)
(* may also begin or end with.                                             *)
HoldsBlock(lines, block) ==
  \E i \in 1..Len(lines) :
    i + Len(block) - 1 <= Len(lines) /\ SubSeq(lines, i, i + Len(block) - 1) = block

-----------------------------------------------------------------------------
(* A block of a page, and the markdown of it: the converter picks a fence  *)
(* longer than any run of backticks in the code.                           *)
Block == [kind : {"code", "table", "prose", "answer"}, lines : Seq(Line)]
Code(inner) == [kind |-> "code", lines |-> inner]
Runs(inner) == {2} \cup {line.run : line \in {l \in ToSet(inner) : l.ch = "tick"}}
Longest(inner) == CHOOSE n \in Runs(inner) : \A m \in Runs(inner) : m <= n
Fence(n) == [ch |-> "tick", run |-> n, tail |-> "", noisy |-> FALSE]

FenceAround(inner) == Fence(Longest(inner) + 1)
Rendered(block) ==
  IF block.kind = "code"
  THEN <<FenceAround(block.lines)>> \o block.lines \o <<FenceAround(block.lines), Blank>>
  ELSE block.lines \o <<Blank>>

(* The conversion is trimmed. *)
Trimmed(lines) ==
  IF lines = <<>> THEN lines
  ELSE IF Last(lines) = Blank THEN Front(lines) ELSE lines
Converted(blocks) == FlattenSeq([i \in DOMAIN blocks |-> Rendered(blocks[i])])
HtmlToMarkdown(blocks) == Trimmed(Converted(blocks))

(* A page is what lies outside its main content and what lies in it.       *)
(* "single": some landmark matches one element with most of the text.      *)
Extracts(page) == page.single
ThreadOutside(page) == \E block \in ToSet(page.side) : block.kind = "answer"
Baseline(page) == HtmlToMarkdown(page.side \o page.main)

LongEnough(page) ==
  /\ Len(HtmlToMarkdown(page.main)) >= MinLines
  /\ ShareDen * Len(HtmlToMarkdown(page.main)) >= ShareNum * Len(Baseline(page))

MutKeepExtracted(page) == Extracts(page) /\ LongEnough(page)
KeepExtracted(page) ==
  /\ Extracts(page) /\ ~ThreadOutside(page) /\ LongEnough(page)
  /\ \A block \in FencedBlocks(Baseline(page)) : HoldsBlock(HtmlToMarkdown(page.main), block)
  /\ TableRows(Baseline(page)) \subseteq TableRows(HtmlToMarkdown(page.main))

MainContentMarkdown(page) ==
  IF KeepExtracted(page) THEN HtmlToMarkdown(page.main) ELSE Baseline(page)

(* What the converter may give: only code opens a fence, and no code       *)
(* begins with an empty line.                                              *)
WellformedBlocks ==
  {block \in Block :
     IF block.kind = "code" THEN block.lines # <<>> => block.lines[1] # Blank
     ELSE \A line \in ToSet(block.lines) : ~FenceOpen(line)}
WellformedPage(page) ==
  page.side \in Seq(WellformedBlocks) /\ page.main \in Seq(WellformedBlocks)

-----------------------------------------------------------------------------
(* What the agent could need: the code and the tables of the whole page,   *)
(* and the answers of a thread.                                            *)
CodeOf(blocks) == {b.lines : b \in {b \in ToSet(blocks) : b.kind = "code"}}
RowsOf(blocks) ==
  UNION {{l \in ToSet(b.lines) : IsRow(l)} : b \in {b \in ToSet(blocks) : b.kind = "table"}}
AnswersOf(blocks) ==
  UNION {{l \in ToSet(b.lines) : l.ch # ""} : b \in {b \in ToSet(blocks) : b.kind = "answer"}}
Read(line) == IF line.ch = "bar" THEN line ELSE CleanInline(line)

(* Code shows where it lies in a fence, be it a larger block's; a row as it *)
(* is, and the rest without what clean_inline takes out.                   *)
Shows(served, blocks) ==
  /\ \A code \in CodeOf(blocks) :
       \E block \in FencedBlocks(served) : HoldsBlock(block, code)
  /\ RowsOf(blocks) \subseteq TableRows(served)
  /\ {Read(line) : line \in AnswersOf(blocks)} \subseteq ToSet(served)
Complete(page) == Shows(CleanMarkdown(MainContentMarkdown(page)), page.side \o page.main)

-----------------------------------------------------------------------------
(* What fetch_static makes of a response: the page, the handover to the    *)
(* browser, or an error the browser would not mend.                        *)
Page(complete) == [to |-> "page", complete |-> complete]
Handover == [to |-> "browser", complete |-> FALSE]
Failed == [to |-> "failed", complete |-> FALSE]

Thin(r) == Len(MainContentMarkdown(r.page)) < MinLines
StaticOutcome(r) ==
  CASE r.status = "wall" /\ r.mitigated -> Handover
    [] r.status = "wall" /\ ~r.mitigated ->
         IF ~r.large /\ r.marker THEN Handover ELSE Failed
    [] r.status = "error" \/ (r.status = "ok" /\ r.large) -> Failed
    [] OTHER ->
         IF \/ r.type = "html" /\ (r.marker \/ r.interstitial)
            \/ r.type = "other"
            \/ Thin(r)
         THEN Handover
         ELSE Page(r.type = "html" => Complete(r.page))
=============================================================================
