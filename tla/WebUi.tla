------------------------------- MODULE WebUi --------------------------------
(***************************************************************************)
(* The web UI: App and its update, one action per message; the scheduler   *)
(* of the framework, which delivers the messages of a browser event one by *)
(* one and then renders once; and the browser, whose events are the user's *)
(* and the end of a file read.  A browser event is a task of its own:      *)
(* nothing else happens between it and the end of the rendering it causes, *)
(* which the scheduler does in a microtask.  The one thing that takes      *)
(* longer is the read of a file.  Dropping the reader aborts it.           *)
(***************************************************************************)
EXTENDS Naturals, Sequences

CONSTANTS
  Demos,         \* the sources of DEMOS
  DefaultIndex,  \* demos::default_index()
  Texts,         \* what the text area may hold
  Files,         \* the local files, and the text of each
  Contents,
  Readable,      \* the files whose read succeeds
  NoFile,
  Result,        \* what the pipeline makes of a text, see RunSource
  MaxInputs      \* bounds the events the user causes

ASSUME UiAssumption ==
  /\ Demos \in Seq(Texts) /\ DefaultIndex \in DOMAIN Demos
  /\ Contents \in [Files -> Texts] /\ Readable \subseteq Files /\ NoFile \notin Files
  /\ MaxInputs \in Nat

VARIABLES
  selected, source, output, status, error,   \* the fields of App
  reads,     \* the file reads in progress: that of _file_reader
  queue,     \* messages sent and not yet delivered
  dirty,     \* an update returned true since the last rendering
  page,      \* the document: menu option, text area, output, status, error
  chosen,    \* the file in the input element
  request,   \* history: what the user asked and the page has not shown yet
  inputs     \* how often the user acted

app  == <<selected, source, output, status, error>>
vars == <<app, reads, queue, dirty, page, chosen, request, inputs>>

-----------------------------------------------------------------------------
(***************************************************************************)
(* run_source.  Result[t] is [built, text, end]: whether t compiles, what  *)
(* it then writes, and how it ends: an error of the pipeline or "halt",    *)
(* "fail" or an error of the machine.                                      *)
(***************************************************************************)
RunSource(t) ==
  LET r == Result[t]
  IN  CASE ~r.built                     -> [output |-> "", status |-> r.end, error |-> TRUE]
        [] r.built /\ r.end = "halt"    -> [output |-> r.text, status |-> "halted", error |-> FALSE]
        [] r.built /\ r.end = "fail"    -> [output |-> r.text, status |-> "failed", error |-> FALSE]
        [] OTHER                        -> [output |-> r.text, status |-> r.end, error |-> TRUE]

Blank == [output |-> "", status |-> "idle", error |-> FALSE]

(* The fields of App that an outcome fills, and those of the document.     *)
Show(o) == output' = o.output /\ status' = o.status /\ error' = o.error

Outcomes == {RunSource(t) : t \in Texts} \cup {Blank}

Messages ==
  [kind : {"Run", "Reset", "Clear", "FileChanged"}]
    \cup [kind : {"SelectDemo"}, idx : DOMAIN Demos]
    \cup [kind : {"SourceChanged", "FileLoaded"}, text : Texts]
    \cup [kind : {"KeyDown"}, runs : BOOLEAN]

Msg(k) == [kind |-> k]

Requests ==
  {<<"nothing">>, <<"run">>, <<"clear">>, <<"reset">>} \cup ({"load"} \X Files)

Pages == [option : DOMAIN Demos, text : Texts, outcome : Outcomes]

TypeOK ==
  /\ selected \in DOMAIN Demos
  /\ source \in Texts
  /\ [output |-> output, status |-> status, error |-> error] \in Outcomes
  /\ reads \in SUBSET Files
  /\ queue \in Seq(Messages)
  /\ dirty \in BOOLEAN
  /\ page \in Pages
  /\ chosen \in Files \cup {NoFile}
  /\ request \in Requests
  /\ inputs \in 0 .. MaxInputs

Init ==     \* create, and the first rendering
  /\ selected = DefaultIndex
  /\ source = Demos[DefaultIndex]
  /\ output = "" /\ status = "idle" /\ error = FALSE
  /\ reads = {}
  /\ queue = <<>>
  /\ dirty = FALSE
  /\ page = [option |-> DefaultIndex, text |-> Demos[DefaultIndex], outcome |-> Blank]
  /\ chosen = NoFile
  /\ request = <<"nothing">>
  /\ inputs = 0

-----------------------------------------------------------------------------
(***************************************************************************)
(* Events.  The browser starts one when the scheduler has nothing to do.   *)
(***************************************************************************)
Idle == queue = <<>> /\ ~dirty

Send(ms, r) ==
  /\ Idle /\ inputs < MaxInputs
  /\ inputs' = inputs + 1
  /\ queue' = ms
  /\ request' = r
  /\ UNCHANGED <<app, reads, dirty>>

(* Mutant: options numbered from 0, demos from 1.                          *)
SlipOnDemo ==
  \E i \in 0 .. Len(Demos) - 1 :
    /\ Send(<<[kind |-> "SelectDemo", idx |-> i]>>, <<"reset">>)
    /\ page' = [page EXCEPT !.option = i]
    /\ UNCHANGED chosen

OnDemo ==    \* onchange: only another option than the one shown
  \E i \in DOMAIN Demos \ {page.option} :
    /\ Send(<<[kind |-> "SelectDemo", idx |-> i]>>, <<"reset">>)
    /\ page' = [page EXCEPT !.option = i]
    /\ UNCHANGED chosen

OnSrc ==
  \E t \in Texts \ {page.text} :
    /\ Send(<<[kind |-> "SourceChanged", text |-> t]>>, <<"nothing">>)
    /\ page' = [page EXCEPT !.text = t]
    /\ UNCHANGED chosen

OnRun   == Send(<<Msg("Run")>>, <<"run">>) /\ UNCHANGED <<page, chosen>>
OnReset == Send(<<Msg("Reset")>>, <<"reset">>) /\ UNCHANGED <<page, chosen>>
OnClear == Send(<<Msg("Clear")>>, <<"clear">>) /\ UNCHANGED <<page, chosen>>

(* A key: the text area and the page around it both listen, so a key       *)
(* pressed in the text area is reported twice.                             *)
OnKeyDown ==
  \E runs \in BOOLEAN, inText \in BOOLEAN :
    LET m == [kind |-> "KeyDown", runs |-> runs]
    IN  /\ Send(IF inText THEN <<m, m>> ELSE <<m>>, IF runs THEN <<"run">> ELSE <<"nothing">>)
        /\ UNCHANGED <<page, chosen>>

OnUpload ==  \* onchange of the file input: only another file than it holds
  \E f \in Files \ {chosen} :
    /\ Send(<<Msg("FileChanged")>>, <<"nothing">>)
    /\ chosen' = f
    /\ UNCHANGED page

(* The callback of the reader: a read that failed sends nothing.           *)
ReadOk ==
  \E f \in reads \cap Readable :
    /\ Idle
    /\ reads' = reads \ {f}
    /\ queue' = <<[kind |-> "FileLoaded", text |-> Contents[f]]>>
    /\ request' = <<"load", f>>
    /\ UNCHANGED <<app, dirty, page, chosen, inputs>>

(* Mutant: a read that failed is started again.                            *)
SlipReadAgain ==
  \E f \in reads \ Readable : Idle /\ reads' = {f} /\ UNCHANGED <<app, queue, dirty, page, chosen, request, inputs>>

ReadErr ==
  \E f \in reads \ Readable :
    /\ Idle
    /\ reads' = reads \ {f}
    /\ UNCHANGED <<app, queue, dirty, page, chosen, request, inputs>>

-----------------------------------------------------------------------------
(***************************************************************************)
(* update, one action per message.                                         *)
(***************************************************************************)
Update(k) ==
  /\ queue # <<>> /\ Head(queue).kind = k
  /\ UNCHANGED <<page, request, inputs>>

Rerender(b) == queue' = Tail(queue) /\ dirty' = (dirty \/ b)

LoadDemo(i) ==
  /\ selected' = i
  /\ source' = Demos[i]
  /\ Show(Blank)

SelectDemo ==
  /\ Update("SelectDemo")
  /\ LoadDemo(Head(queue).idx)
  /\ Rerender(TRUE)
  /\ UNCHANGED <<reads, chosen>>

(* Mutant: what is typed is not kept.                                      *)
SlipSourceChanged ==
  /\ Update("SourceChanged")
  /\ Rerender(FALSE)
  /\ UNCHANGED <<app, reads, chosen>>

SourceChanged ==
  /\ Update("SourceChanged")
  /\ source' = Head(queue).text
  /\ Rerender(FALSE)
  /\ UNCHANGED <<selected, output, status, error, reads, chosen>>

Run ==
  /\ Update("Run")
  /\ Show(RunSource(source))
  /\ Rerender(TRUE)
  /\ UNCHANGED <<selected, source, reads, chosen>>

Reset ==
  /\ Update("Reset")
  /\ LoadDemo(selected)
  /\ Rerender(TRUE)
  /\ UNCHANGED <<reads, chosen>>

Clear ==
  /\ Update("Clear")
  /\ Show(Blank)
  /\ Rerender(TRUE)
  /\ UNCHANGED <<selected, source, reads, chosen>>

KeyDown ==
  /\ Update("KeyDown")
  /\ queue' = IF Head(queue).runs THEN Append(Tail(queue), Msg("Run")) ELSE Tail(queue)
  /\ UNCHANGED <<app, dirty, reads, chosen>>

(* Mutants: the input keeps its file; the reader is not kept, so that it   *)
(* is dropped, and the read aborted, at the end of the arm.                *)
SlipKeepInput ==
  /\ Update("FileChanged")
  /\ reads' = IF chosen = NoFile THEN reads ELSE {chosen}
  /\ UNCHANGED chosen
  /\ Rerender(FALSE)
  /\ UNCHANGED app

SlipDropReader ==
  /\ Update("FileChanged")
  /\ reads' = reads
  /\ chosen' = NoFile
  /\ Rerender(FALSE)
  /\ UNCHANGED app

(* The reader of the chosen file takes the place of the one before, which  *)
(* is dropped; the input is emptied.                                       *)
FileChanged ==
  /\ Update("FileChanged")
  /\ reads' = IF chosen = NoFile THEN reads ELSE {chosen}
  /\ chosen' = NoFile
  /\ Rerender(FALSE)
  /\ UNCHANGED app

FileLoaded ==
  /\ Update("FileLoaded")
  /\ source' = Head(queue).text
  /\ Show(Blank)
  /\ Rerender(TRUE)
  /\ UNCHANGED <<selected, reads, chosen>>

(* view: the document becomes what App says, whatever was typed into it.   *)
View ==
  /\ queue = <<>> /\ dirty
  /\ page' = [option |-> selected, text |-> source,
              outcome |-> [output |-> output, status |-> status, error |-> error]]
  /\ dirty' = FALSE
  /\ request' = <<"nothing">>
  /\ UNCHANGED <<app, reads, queue, chosen, inputs>>

-----------------------------------------------------------------------------
User      == OnDemo \/ OnSrc \/ OnRun \/ OnReset \/ OnClear \/ OnKeyDown \/ OnUpload
Reading   == ReadOk \/ ReadErr
Scheduler == \/ SelectDemo \/ SourceChanged \/ Run \/ Reset \/ Clear
             \/ KeyDown \/ FileChanged \/ FileLoaded \/ View

(* The user is done, every read has ended, and nothing is left to do.      *)
Quiet == Idle /\ reads = {} /\ inputs = MaxInputs /\ UNCHANGED vars

Next == User \/ Reading \/ Scheduler \/ Quiet

(* The scheduler runs until nothing is left, the browser ends its reads.   *)
(* The user owes nothing.                                                  *)
Spec == Init /\ [][Next]_vars /\ WF_vars(Scheduler) /\ WF_vars(Reading)
-----------------------------------------------------------------------------
(***************************************************************************)
(* Between two events the document shows the fields of App: no update that *)
(* changed one of them went without a rendering, and no rendering left     *)
(* what the user had typed in place of the source (update, view).          *)
(***************************************************************************)
PageIsApp ==
  Idle => page = [option |-> selected, text |-> source,
                  outcome |-> [output |-> output, status |-> status, error |-> error]]

(***************************************************************************)
(* Between two events the file input is empty, so that any file, the last  *)
(* one included, can be chosen next: choosing what the input already holds *)
(* is no event (the comment in the arm of FileChanged).                    *)
(***************************************************************************)
InputEmpty == Idle => chosen = NoFile

(* The file whose text is still to come.                                   *)
Awaited ==
  CASE chosen # NoFile                  -> chosen
    [] chosen = NoFile /\ reads # {}    -> CHOOSE f \in reads : TRUE
    [] chosen = NoFile /\ reads = {}    -> NoFile

E == INSTANCE Editor WITH
       text <- page.text, shown <- page.outcome, demo <- page.option,
       upload <- Awaited, Outcome <- [t \in Texts |-> RunSource(t)]

(***************************************************************************)
(* The document behaves as the editor: a run shows the outcome of the text *)
(* that is there, also when Ctrl+Enter arrives twice; whatever replaces    *)
(* the text blanks the outcome; and of the files chosen only the last one  *)
(* is ever loaded, however the reads and the user's other actions          *)
(* interleave.                                                             *)
(***************************************************************************)
ImplementsEditor == E!Safety

(***************************************************************************)
(* Each request is answered, and the file chosen last is in the end loaded *)
(* or found unreadable: its reader is kept alive until then.               *)
(***************************************************************************)
AnswersEditor == E!Liveness
=============================================================================
