------------------------------ MODULE Evidence -------------------------------
(***************************************************************************)
(* The pages of a Research: the fetch calls of a run and the memory they   *)
(* share (src/src/research/agent_loop/registry.rs), the tape that records  *)
(* and replays them over several runs (tape.rs) and the answer that cites  *)
(* them (runner.rs).  The calls of a run come one after the other.         *)
(***************************************************************************)
EXTENDS Answer

CONSTANTS
  Web,         \* the pages a fetch of each key may return: the web changes
  FinalReplies, \* the model's final replies, sequences of lines
  PartChars,   \* max_part_chars
  Parts,       \* the parts a call may ask for, 0: none
  MaxRuns, MaxCalls   \* bounds: runs, calls of all runs

ASSUME EvidenceAssumption ==
  /\ \A key \in {KeyOf[url] : url \in Urls} : \A page \in Web[key] :
       page.source \in Urls /\ page.text \in Seq(ToSet(page.text))
  /\ \A lines \in FinalReplies : lines \in Seq(ToSet(lines))
  /\ PartChars \in Nat \ {0} /\ Parts \subseteq Nat /\ MaxRuns \in Nat /\ MaxCalls \in Nat

VARIABLES
  tape,        \* pages.jsonl: [key, page], a failure having no page
  run, mode,
  loaded,      \* rows of the tape the run's fixture holds
  store,       \* the stored pages: [page, delivered]
  fetched,     \* what each key names in store, 0: nothing
  evidence,    \* the results with a page: [id, part, first]
  stage, fetches,
  synthesis

memory == <<store, fetched, evidence>>
research == <<tape, run, mode, loaded, memory, stage, fetches, synthesis>>

Keys == {KeyOf[url] : url \in Urls}
NoPage == [source |-> "none"]
NoSynthesis == [citations |-> <<>>]

-----------------------------------------------------------------------------
(* Parts of a page, each from a first to a last character.  A cut prefers  *)
(* the last line end in the last tenth of a part.                          *)
LineEnds(text, from) ==
  {i \in from + PartChars - PartChars \div 10 .. from + PartChars - 1 : text[i] = "end"}
MutPartEnd(text, from) ==
  IF Len(text) <= from + PartChars THEN Len(text)
  ELSE IF LineEnds(text, from) # {} THEN Max(LineEnds(text, from))
  ELSE from + PartChars - 1
PartEnd(text, from) ==
  IF Len(text) < from + PartChars THEN Len(text)
  ELSE IF LineEnds(text, from) # {} THEN Max(LineEnds(text, from))
  ELSE from + PartChars - 1

PageParts(text) ==
  LET parts[from \in 1..Len(text) + 1] ==
        IF PartEnd(text, from) = Len(text) THEN <<<<from, Len(text)>>>>
        ELSE <<<<from, PartEnd(text, from)>>>> \o parts[PartEnd(text, from) + 1]
  IN parts[1]

-----------------------------------------------------------------------------
(* The fixture: a key's page wins over its failures, the first page over   *)
(* later ones; a page is also found under the URL it was redirected to.    *)
Fixture == SubSeq(tape, 1, loaded)
RowsOf(key) == {i \in DOMAIN Fixture : Fixture[i].key = key}
PagesOf(key) == {i \in RowsOf(key) : Fixture[i].page # NoPage}
FinalsOf(key) ==
  {i \in DOMAIN Fixture : Fixture[i].page # NoPage /\ KeyOf[Fixture[i].page.source] = key}

MutRecorded(key) ==
  IF RowsOf(key) # {} THEN Fixture[Max(RowsOf(key))].page ELSE NoPage
Recorded(key) ==
  IF PagesOf(key) # {} THEN Fixture[Min(PagesOf(key))].page ELSE NoPage
Known(key) == RowsOf(key) # {} \/ FinalsOf(key) # {}
Lookup(key) ==
  IF RowsOf(key) # {} \/ FinalsOf(key) = {} THEN Recorded(key)
  ELSE Recorded(Fixture[Min(FinalsOf(key))].key)

Replays == mode = "replay" \/ mode = "through"
Records == mode = "record" \/ mode = "through"

(* What a fetch comes to, over the tape or the network, and its row. *)
Replayed(key, page) ==
  /\ Replays /\ (Known(key) \/ mode = "replay")
  /\ page = Lookup(key)
  /\ UNCHANGED tape

GoesLive(key) == ~Replays \/ (mode = "through" /\ ~Known(key))
Live(key, page) ==
  /\ GoesLive(key)
  /\ page \in Web[key] \cup {NoPage}
  /\ tape' = IF Records THEN Append(tape, [key |-> key, page |-> page]) ELSE tape

-----------------------------------------------------------------------------
(* deliver_part, of a page that is at id in pages. *)
PartsOf(page) == Len(PageParts(page.text))
MutDeliver(id, pages, part) ==
  /\ store' = [pages EXCEPT ![id].delivered = TRUE]
  /\ IF part > PartsOf(pages[id].page)
     THEN UNCHANGED evidence
     ELSE evidence' = Append(evidence, [id |-> id, part |-> part,
                                        first |-> ~pages[id].delivered])
Deliver(id, pages, part) ==
  IF part > PartsOf(pages[id].page)
  THEN store' = pages /\ UNCHANGED evidence
  ELSE /\ store' = [pages EXCEPT ![id].delivered = TRUE]
       /\ evidence' = Append(evidence, [id |-> id, part |-> part,
                                        first |-> ~pages[id].delivered])

(* The part asked for, 0 for none. *)
Asked(part) == IF part = 0 THEN 1 ELSE part

FetchKnown(key, part) ==
  /\ fetched[key] # 0
  /\ IF part = 0 /\ store[fetched[key]].delivered
     THEN UNCHANGED <<store, evidence>>
     ELSE Deliver(fetched[key], store, Asked(part))
  /\ UNCHANGED <<fetched, tape>>

(* Two URLs may lead to one page: the one stored first is kept. *)
MutKept(page) == 0
Kept(page) == fetched[KeyOf[page.source]]
Store(key, page, part) ==
  LET pages == IF Kept(page) # 0 THEN store
               ELSE Append(store, [page |-> page, delivered |-> FALSE])
      id == IF Kept(page) # 0 THEN Kept(page) ELSE Len(pages)
  IN /\ fetched' = [fetched EXCEPT ![KeyOf[page.source]] = id, ![key] = id]
     /\ Deliver(id, pages, part)

FetchUnknown(key, part) ==
  /\ fetched[key] = 0
  /\ \E page \in Web[key] \cup {NoPage} \cup {Lookup(key)} :
       /\ Replayed(key, page) \/ Live(key, page)
       /\ IF page = NoPage THEN UNCHANGED memory
          ELSE Store(key, page, Asked(part))

(* The call is cut while it waits for the network: nothing is kept of it. *)
FetchCut(key) ==
  /\ fetched[key] = 0 /\ GoesLive(key)
  /\ UNCHANGED <<tape, memory>>

Call(key, part) ==
  /\ stage = "running" /\ fetches < MaxCalls
  /\ fetches' = fetches + 1
  /\ FetchKnown(key, part) \/ FetchUnknown(key, part) \/ (part = 0 /\ FetchCut(key))
  /\ UNCHANGED <<run, mode, loaded, stage, synthesis>>

-----------------------------------------------------------------------------
(* The pages by the key of their URL. *)
Delivered == {i \in DOMAIN evidence : evidence[i].first}
PageAt(key) == Min({i \in Delivered : KeyOf[store[evidence[i].id].page.source] = key})
FetchedKeys == {KeyOf[store[evidence[i].id].page.source] : i \in DOMAIN evidence}
CheckedKeys == {KeyOf[store[evidence[i].id].page.source] : i \in Delivered}
CheckedPages ==
  [key \in CheckedKeys |-> store[evidence[PageAt(key)].id].page]

Conclude(lines) ==
  /\ stage = "running" /\ ~EmptyAnswer(lines)
  /\ stage' = "answered"
  /\ synthesis' = VerifySynthesis(RetainFetched(ParseAnswer(lines), FetchedKeys), CheckedPages)
  /\ UNCHANGED <<tape, run, mode, loaded, memory, fetches>>

-----------------------------------------------------------------------------
Begin(m) ==
  /\ stage = "idle" /\ run < MaxRuns
  /\ run' = run + 1 /\ mode' = m
  /\ loaded' = IF m \in {"replay", "through"} THEN Len(tape) ELSE 0
  /\ stage' = "running"
  /\ UNCHANGED <<tape, memory, fetches, synthesis>>

(* A run may end at any point: what it knew is gone, the tape stays. *)
EndRun ==
  /\ stage # "idle"
  /\ stage' = "idle" /\ mode' = "live" /\ loaded' = 0
  /\ store' = <<>> /\ fetched' = [key \in Keys |-> 0] /\ evidence' = <<>>
  /\ synthesis' = NoSynthesis
  /\ UNCHANGED <<tape, run, fetches>>

PagesInit ==
  /\ tape = <<>> /\ run = 0 /\ mode = "live" /\ loaded = 0
  /\ store = <<>> /\ fetched = [key \in Keys |-> 0] /\ evidence = <<>>
  /\ stage = "idle" /\ fetches = 0 /\ synthesis = NoSynthesis

Modes == {"live", "record", "replay", "through"}
PagesNext ==
  \/ \E m \in Modes : Begin(m)
  \/ \E key \in Keys, part \in Parts : Call(key, part)
  \/ \E lines \in FinalReplies : Conclude(lines)
  \/ EndRun

PagesSpec == PagesInit /\ [][PagesNext]_research
-----------------------------------------------------------------------------
(* A citation that survives in the Synthesis is of a page the model was    *)
(* shown a part of, and that page is in the run's Evidence once: it is     *)
(* what the answer is checked against and what the Session keeps.          *)
CitedPageKeptOnce ==
  stage = "answered" =>
    \A url \in DOMAIN synthesis.citations :
      \E i \in Delivered :
        /\ KeyOf[store[evidence[i].id].page.source] = KeyOf[url]
        /\ \A j \in Delivered :
             KeyOf[store[evidence[j].id].page.source] = KeyOf[url] => i = j

(* A citation is graded by its own page: the quote shown with it is on     *)
(* that page, whatever other pages its point links.                        *)
QuoteIsOnItsPage ==
  stage = "answered" =>
    \A url \in DOMAIN synthesis.citations :
      LET best == synthesis.citations[url] IN
      best.support >= Partial => best.quote \in CheckedPages[KeyOf[url]].quotes

(* A page the model reads part after part was read whole, every character  *)
(* once, in parts of at most the size the budget allows.                   *)
PartsAreThePage ==
  \A id \in DOMAIN store : stage = "running" =>
    LET text == store[id].page.text  parts == PageParts(text) IN
    /\ FlattenSeq([n \in DOMAIN parts |-> SubSeq(text, parts[n][1], parts[n][2])]) = text
    /\ \A n \in DOMAIN parts : parts[n][2] - parts[n][1] < PartChars

(* What the recordings of a fixture read under a URL, a replay of it reads *)
(* too, whatever failures were recorded for it before or after.            *)
RecordedIsReplayed ==
  \A key \in Keys :
    Replays /\ (\E i \in DOMAIN Fixture : Fixture[i].key = key /\ Fixture[i].page # NoPage)
      => Lookup(key) # NoPage
=============================================================================
