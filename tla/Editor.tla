------------------------------- MODULE Editor -------------------------------
(***************************************************************************)
(* What the page of the web UI promises its user, whatever messages and    *)
(* renderings are behind it: a text, the outcome of a run beside it, and   *)
(* one answer for each request.  The text changes by the user's hand, with *)
(* the outcome left as it is, or by an answer, which then shows no outcome *)
(* of another text.  An upload is answered by the file chosen last, or not *)
(* at all if, and only if, that file cannot be read.                       *)
(***************************************************************************)
EXTENDS Naturals, Sequences

CONSTANTS
  Demos,         \* the texts of the demos, in the order of the menu
  DefaultIndex,  \* the demo shown first
  Texts,         \* every text
  Files,         \* the files that can be uploaded
  Contents,      \* the text of each
  Readable,      \* the files whose text can be read
  NoFile,
  Outcome,       \* what a run of a text shows
  Blank          \* shown when nothing has run

VARIABLES
  text,      \* in the editor
  shown,     \* of the last run
  demo,      \* selected in the menu
  request,   \* asked of the page and not answered yet
  upload     \* the file that is being read

vars == <<text, shown, demo, request, upload>>

Nothing == <<"nothing">>
Asked   == request # Nothing

Init ==
  /\ text = Demos[DefaultIndex]
  /\ shown = Blank
  /\ demo = DefaultIndex
  /\ request = Nothing
  /\ upload = NoFile

(* The user writes, asks, or hands over a file; a later file replaces an    *)
(* earlier one that is still being read.                                   *)
Edit ==
  /\ ~Asked
  /\ text' \in Texts
  /\ UNCHANGED <<shown, demo, request, upload>>

Ask ==
  /\ ~Asked
  /\ request' \in {<<"run">>, <<"clear">>, <<"reset">>}
  /\ UNCHANGED <<text, shown, demo, upload>>

Select ==
  /\ ~Asked
  /\ demo' \in DOMAIN Demos
  /\ request' = <<"reset">>
  /\ UNCHANGED <<text, shown, upload>>

Upload ==
  /\ ~Asked
  /\ upload' \in Files
  /\ UNCHANGED <<text, shown, demo, request>>

(* The file has been read, or cannot be.                                   *)
FileRead ==
  /\ ~Asked
  /\ upload \in Readable
  /\ request' = <<"load", upload>>
  /\ upload' = NoFile
  /\ UNCHANGED <<text, shown, demo>>

FileLost ==
  /\ ~Asked
  /\ upload \in Files \ Readable
  /\ upload' = NoFile
  /\ UNCHANGED <<text, shown, demo, request>>

(* The answers.  A run leaves the text, and what it shows is the outcome    *)
(* of the text that is there.                                              *)
AnswerRun   == request = <<"run">> /\ shown' = Outcome[text] /\ text' = text
AnswerClear == request = <<"clear">> /\ shown' = Blank /\ text' = text
AnswerReset == request = <<"reset">> /\ shown' = Blank /\ text' = Demos[demo]
AnswerLoad  ==
  \E f \in Files : request = <<"load", f>> /\ shown' = Blank /\ text' = Contents[f]

Answer ==
  /\ AnswerRun \/ AnswerClear \/ AnswerReset \/ AnswerLoad
  /\ request' = Nothing
  /\ UNCHANGED <<demo, upload>>

Next == Edit \/ Ask \/ Select \/ Upload \/ FileRead \/ FileLost \/ Answer

Safety   == Init /\ [][Next]_vars
Liveness == WF_vars(Answer) /\ WF_vars(FileRead \/ FileLost)
Spec     == Safety /\ Liveness
=============================================================================
