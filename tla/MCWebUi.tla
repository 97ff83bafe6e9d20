------------------------------ MODULE MCWebUi -------------------------------
(***************************************************************************)
(* Two demos and three files.  One demo halts, the other fails after some  *)
(* output; one file ends in an error of the machine, one does not compile  *)
(* and one cannot be read.                                                 *)
(***************************************************************************)
EXTENDS WebUi

MCDemos    == <<"halts", "fails">>
MCTexts    == {"halts", "fails", "loops", "garbled"}
MCFiles    == {"loops.pl", "garbled.pl", "locked.pl"}
MCReadable == {"loops.pl", "garbled.pl"}
MCContents == [f \in MCFiles |-> IF f = "loops.pl" THEN "loops" ELSE "garbled"]

MCResult ==
  [halts   |-> [built |-> TRUE,  text |-> "yes", end |-> "halt"],
   fails   |-> [built |-> TRUE,  text |-> "some", end |-> "fail"],
   loops   |-> [built |-> TRUE,  text |-> "more", end |-> "vm error: TickLimit"],
   garbled |-> [built |-> FALSE, text |-> "", end |-> "parse: MissingDot"]]
=============================================================================
