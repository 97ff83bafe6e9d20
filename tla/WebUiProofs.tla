---------------------------- MODULE WebUiProofs -----------------------------
(***************************************************************************)
(* For every list of demos, every set of texts and files, every outcome of *)
(* runs and any number of user events: the document shows the fields of    *)
(* App between events, and behaves as the abstract editor.                 *)
(***************************************************************************)
EXTENDS WebUi, SequenceTheorems, TLAPS

(* What App would show, and the messages on their way.                     *)
Outcome == [output |-> output, status |-> status, error |-> error]
Sent    == {queue[i] : i \in 1 .. Len(queue)}

(* A request that is not answered yet has messages or a rendering to come. *)
Coming == queue = <<>> => dirty

(* What is known of App while no request is open, and for each kind of it. *)
Untouched ==
  /\ ~dirty /\ Outcome = page.outcome /\ selected = page.option
  /\ \A m \in Sent : \/ m.kind = "SourceChanged" /\ m.text = page.text /\ Len(queue) = 1
                     \/ m.kind = "FileChanged" /\ Len(queue) = 1
                     \/ m.kind = "KeyDown" /\ ~m.runs
  /\ source # page.text => \E m \in Sent : m.kind = "SourceChanged"

Running ==
  /\ Coming /\ source = page.text /\ selected = page.option
  /\ \A m \in Sent : m.kind = "Run" \/ (m.kind = "KeyDown" /\ m.runs)
  /\ dirty => Outcome = RunSource(source)

Clearing ==
  /\ Coming /\ source = page.text /\ selected = page.option
  /\ \A m \in Sent : m.kind = "Clear"
  /\ dirty => Outcome = Blank

Resetting ==
  /\ Coming
  /\ \A m \in Sent : \/ m.kind = "Reset" /\ selected = page.option
                     \/ m.kind = "SelectDemo" /\ m.idx = page.option
  /\ dirty => source = Demos[page.option] /\ selected = page.option /\ Outcome = Blank

Loading(f) ==
  /\ Coming /\ selected = page.option
  /\ \A m \in Sent : m.kind = "FileLoaded" /\ m.text = Contents[f]
  /\ dirty => source = Contents[f] /\ Outcome = Blank

InStep ==
  /\ request = <<"nothing">> => Untouched
  /\ request = <<"run">>     => Running
  /\ request = <<"clear">>   => Clearing
  /\ request = <<"reset">>   => Resetting
  /\ \A f \in Files : request = <<"load", f>> => Loading(f)

OneReader ==
  /\ reads = {} \/ \E f \in Files : reads = {f}
  /\ chosen # NoFile => queue = <<Msg("FileChanged")>> /\ request = <<"nothing">>

IInv == TypeOK /\ InStep /\ OneReader

-----------------------------------------------------------------------------
(* Outcomes are records of the three fields an answer fills.               *)
LEMMA OutcomeFields ==
  ASSUME NEW o \in Outcomes
  PROVE  o = [output |-> o.output, status |-> o.status, error |-> o.error]
  BY DEF Outcomes, RunSource, Blank

LEMMA ShowOutcome ==
  ASSUME NEW o \in Outcomes, Show(o)
  PROVE  Outcome' = o
  BY OutcomeFields DEF Show, Outcome

(* The queue after its head was taken.                                     *)
LEMMA TailSent ==
  ASSUME queue \in Seq(Messages), queue # <<>>
  PROVE  /\ Head(queue) \in Sent /\ Head(queue) \in Messages
         /\ Tail(queue) \in Seq(Messages)
         /\ Len(queue) = 1 => Tail(queue) = <<>> /\ Sent = {Head(queue)}
         /\ \A i \in 1 .. Len(Tail(queue)) : Tail(queue)[i] \in Sent
<1>1. Len(queue) \in Nat /\ Len(queue) # 0
  BY LenProperties, EmptySeq
<1>2. /\ Head(queue) = queue[1] /\ Tail(queue) \in Seq(Messages)
      /\ Len(Tail(queue)) = Len(queue) - 1
      /\ \A i \in 1 .. Len(Tail(queue)) : Tail(queue)[i] = queue[i + 1]
  BY HeadTailProperties
<1>3. queue[1] \in Messages /\ queue[1] \in Sent
  BY <1>1, ElementOfSeq DEF Sent
<1>4. ASSUME Len(queue) = 1, Tail(queue) # <<>> PROVE FALSE
  <2>1. Len(Tail(queue)) # 0
    BY <1>2, <1>4, EmptySeq
  <2> QED
    BY <1>2, <1>4, <2>1
<1>5. \A i \in 1 .. Len(Tail(queue)) : Tail(queue)[i] \in Sent
  BY <1>1, <1>2 DEF Sent
<1>6. Len(queue) = 1 => Sent = {Head(queue)}
  BY <1>2 DEF Sent
<1> QED
  BY <1>2, <1>3, <1>4, <1>5, <1>6

(* A message that was taken and nothing sent.                              *)
LEMMA Taken ==
  ASSUME queue \in Seq(Messages), queue # <<>>, queue' = Tail(queue)
  PROVE  /\ queue' \in Seq(Messages)
         /\ \A m \in Sent' : m \in Sent
         /\ Len(queue) = 1 => queue' = <<>>
  BY TailSent DEF Sent

LEMMA TakenForRun ==
  ASSUME queue \in Seq(Messages), queue # <<>>, queue' = Append(Tail(queue), Msg("Run")),
         Msg("Run") \in Messages
  PROVE  queue' # <<>> /\ \A m \in Sent' : m \in Sent \/ m = Msg("Run")
<1>1. /\ Tail(queue) \in Seq(Messages)
      /\ \A i \in 1 .. Len(Tail(queue)) : Tail(queue)[i] \in Sent
  BY TailSent
<1> DEFINE t == Tail(queue)
           q == Append(t, Msg("Run"))
<1>2. /\ Len(q) = Len(t) + 1 /\ Len(t) \in Nat
      /\ \A i \in 1 .. Len(t) : q[i] = t[i]
      /\ q[Len(t) + 1] = Msg("Run")
  BY <1>1, AppendProperties, LenProperties
<1> HIDE DEF t
<1>3. \A i \in 1 .. Len(q) : q[i] \in Sent \/ q[i] = Msg("Run")
  BY <1>1, <1>2 DEF t
<1>4. q # <<>>
  BY <1>2
<1> QED
  BY <1>3, <1>4 DEF Sent, t

(* One message sent to an idle scheduler, and the same message twice.      *)
LEMMA SentOne ==
  ASSUME NEW m \in Messages, queue' = <<m>>
  PROVE  queue' \in Seq(Messages) /\ Sent' = {m} /\ Len(queue') = 1 /\ queue' # <<>>
  BY DEF Sent

LEMMA SentTwice ==
  ASSUME NEW m \in Messages, queue' = <<m, m>>
  PROVE  queue' \in Seq(Messages) /\ Sent' = {m} /\ queue' # <<>>
  BY DEF Sent

LEMMA EmptySent ==
  ASSUME queue = <<>>
  PROVE  Sent = {}
  BY DEF Sent

LEMMA InitIInv == Init => IInv
<1> SUFFICES ASSUME Init PROVE IInv
  OBVIOUS
<1>0. 0 \in 0 .. MaxInputs
  BY UiAssumption
<1> USE DEF Init
<1>1. DefaultIndex \in DOMAIN Demos /\ Demos[DefaultIndex] \in Texts
  BY UiAssumption, ElementOfSeq, LenProperties
<1>2. Blank \in Outcomes /\ Outcome = Blank
  BY DEF Blank, Outcome, Outcomes
<1>3. TypeOK
  <2>1. page \in Pages
    BY <1>1, <1>2 DEF Pages
  <2>2. request \in Requests
    BY DEF Requests
  <2>3. queue \in Seq(Messages)
    BY EmptySeq
  <2>4. inputs \in 0 .. MaxInputs
    BY <1>0
  <2>5. [output |-> output, status |-> status, error |-> error] \in Outcomes
    BY <1>2 DEF Outcome
  <2> QED
    BY <1>1, <2>1, <2>2, <2>3, <2>4, <2>5 DEF TypeOK
<1>4. InStep
  BY <1>1, <1>2, EmptySent DEF InStep, Untouched
<1>5. OneReader
  BY DEF OneReader
<1> QED
  BY <1>3, <1>4, <1>5 DEF IInv

-----------------------------------------------------------------------------
(* What the messages are, one set per kind.                                *)
LEMMA MessageKinds ==
  /\ \A k \in {"Run", "Reset", "Clear", "FileChanged"} : Msg(k) \in Messages
  /\ \A i \in DOMAIN Demos : [kind |-> "SelectDemo", idx |-> i] \in Messages
  /\ \A k \in {"SourceChanged", "FileLoaded"} : \A t \in Texts : [kind |-> k, text |-> t] \in Messages
  /\ \A b \in BOOLEAN : [kind |-> "KeyDown", runs |-> b] \in Messages
  BY DEF Messages, Msg

LEMMA MessageFields ==
  ASSUME NEW m \in Messages
  PROVE  /\ m.kind \in {"Run", "Reset", "Clear", "FileChanged", "SelectDemo", "SourceChanged",
                        "FileLoaded", "KeyDown"}
         /\ m.kind = "SelectDemo" => m.idx \in DOMAIN Demos
         /\ m.kind \in {"SourceChanged", "FileLoaded"} => m.text \in Texts
         /\ m.kind = "KeyDown" => m.runs \in BOOLEAN
  BY DEF Messages

LEMMA RequestKinds ==
  ASSUME NEW r \in Requests
  PROVE  \/ r \in {<<"nothing">>, <<"run">>, <<"clear">>, <<"reset">>}
         \/ \E f \in Files : r = <<"load", f>>
  BY DEF Requests

(* The demos and the files hold texts.                                     *)
LEMMA DemoTexts ==
  /\ \A i \in DOMAIN Demos : Demos[i] \in Texts
  /\ \A f \in Files : Contents[f] \in Texts
  BY UiAssumption, ElementOfSeq, LenProperties

(* Nobody sends to an idle scheduler while a request is open.              *)
LEMMA IdleUntouched ==
  ASSUME IInv, Idle
  PROVE  request = <<"nothing">> /\ Untouched
<1>1. request # <<"nothing">> => ~Idle
  <2>1. request \in Requests
    BY DEF IInv, TypeOK
  <2>2. request # <<"nothing">> => Coming
    BY <2>1, RequestKinds DEF IInv, InStep, Running, Clearing, Resetting, Loading
  <2> QED
    BY <2>2 DEF Coming, Idle
<1> QED
  BY <1>1 DEF IInv, InStep

(* The type of the state, action by action.                                *)
LEMMA SendType ==
  ASSUME TypeOK, NEW ms \in Seq(Messages), NEW r \in Requests, Send(ms, r)
  PROVE  /\ <<selected, source, output, status, error, reads, dirty>>'
              = <<selected, source, output, status, error, reads, dirty>>
         /\ queue' = ms /\ queue' \in Seq(Messages)
         /\ request' = r /\ request' \in Requests
         /\ inputs' \in 0 .. MaxInputs
<1>1. inputs \in 0 .. MaxInputs /\ MaxInputs \in Nat /\ inputs < MaxInputs /\ inputs' = inputs + 1
  BY UiAssumption DEF TypeOK, Send
<1>2. inputs' \in 0 .. MaxInputs
  BY <1>1
<1> QED
  BY <1>2 DEF Send, app

LEMMA EventType ==
  ASSUME TypeOK, User
  PROVE  TypeOK'
<1> USE DEF TypeOK
<1>1. CASE OnDemo
  <2>1. PICK i \in DOMAIN Demos \ {page.option} :
          /\ Send(<<[kind |-> "SelectDemo", idx |-> i]>>, <<"reset">>)
          /\ page' = [page EXCEPT !.option = i] /\ chosen' = chosen
    BY <1>1 DEF OnDemo
  <2>2. <<[kind |-> "SelectDemo", idx |-> i]>> \in Seq(Messages) /\ <<"reset">> \in Requests
    BY MessageKinds DEF Requests
  <2>3. page' \in Pages
    BY <2>1 DEF Pages
  <2> QED
    BY <2>1, <2>2, <2>3, SendType
<1>2. CASE OnSrc
  <2>1. PICK t \in Texts \ {page.text} :
          /\ Send(<<[kind |-> "SourceChanged", text |-> t]>>, <<"nothing">>)
          /\ page' = [page EXCEPT !.text = t] /\ chosen' = chosen
    BY <1>2 DEF OnSrc
  <2>2. <<[kind |-> "SourceChanged", text |-> t]>> \in Seq(Messages) /\ <<"nothing">> \in Requests
    BY MessageKinds DEF Requests
  <2>3. page' \in Pages
    BY <2>1 DEF Pages
  <2> QED
    BY <2>1, <2>2, <2>3, SendType
<1>3. CASE OnRun \/ OnReset \/ OnClear
  <2>1. PICK k \in {"Run", "Reset", "Clear"}, r \in Requests :
          Send(<<Msg(k)>>, r) /\ page' = page /\ chosen' = chosen
    BY <1>3 DEF OnRun, OnReset, OnClear, Requests
  <2>2. <<Msg(k)>> \in Seq(Messages)
    BY MessageKinds
  <2> QED
    BY <2>1, <2>2, SendType
<1>4. CASE OnKeyDown
  <2>1. PICK b \in BOOLEAN, c \in BOOLEAN :
          LET m == [kind |-> "KeyDown", runs |-> b]
          IN  /\ Send(IF c THEN <<m, m>> ELSE <<m>>, IF b THEN <<"run">> ELSE <<"nothing">>)
              /\ page' = page /\ chosen' = chosen
    BY <1>4 DEF OnKeyDown
  <2> DEFINE m == [kind |-> "KeyDown", runs |-> b]
  <2>2. m \in Messages
    BY MessageKinds
  <2>3. (IF c THEN <<m, m>> ELSE <<m>>) \in Seq(Messages)
    <3> HIDE DEF m
    <3> QED BY <2>2
  <2>4. (IF b THEN <<"run">> ELSE <<"nothing">>) \in Requests
    BY DEF Requests
  <2> QED
    BY <2>1, <2>3, <2>4, SendType
<1>5. CASE OnUpload
  <2>1. PICK f \in Files : Send(<<Msg("FileChanged")>>, <<"nothing">>) /\ chosen' = f /\ page' = page
    BY <1>5 DEF OnUpload
  <2>2. <<Msg("FileChanged")>> \in Seq(Messages) /\ <<"nothing">> \in Requests
    BY MessageKinds DEF Requests
  <2> QED
    BY <2>1, <2>2, SendType
<1> QED
  BY <1>1, <1>2, <1>3, <1>4, <1>5 DEF User

LEMMA ReadingType ==
  ASSUME TypeOK, Reading
  PROVE  TypeOK'
<1> USE DEF TypeOK
<1>1. CASE ReadOk
  <2>1. PICK f \in reads :
          /\ reads' = reads \ {f} /\ queue' = <<[kind |-> "FileLoaded", text |-> Contents[f]]>>
          /\ request' = <<"load", f>>
          /\ UNCHANGED <<app, dirty, page, chosen, inputs>>
    BY <1>1 DEF ReadOk
  <2>2. queue' \in Seq(Messages)
    BY <2>1, DemoTexts, MessageKinds
  <2>3. request' \in Requests
    BY <2>1 DEF Requests
  <2> QED
    BY <2>1, <2>2, <2>3 DEF app
<1>2. CASE ReadErr
  BY <1>2 DEF ReadErr, app
<1> QED
  BY <1>1, <1>2 DEF Reading

LEMMA SchedulerType ==
  ASSUME TypeOK, Scheduler
  PROVE  TypeOK'
<1> USE DEF TypeOK
<1>1. CASE View
  <2>1. page' \in Pages
    BY <1>1 DEF View, Pages
  <2>2. request' \in Requests
    BY <1>1 DEF View, Requests
  <2> QED
    BY <1>1, <2>1, <2>2 DEF View, app
<1> DEFINE m == Head(queue)
<1>2. ASSUME queue # <<>>
      PROVE  m \in Messages /\ Tail(queue) \in Seq(Messages)
  BY <1>2, TailSent
<1>3. Blank \in Outcomes /\ \A t \in Texts : RunSource(t) \in Outcomes
  BY DEF Outcomes
<1>4. ASSUME NEW o \in Outcomes, Show(o)
      PROVE  [output |-> output', status |-> status', error |-> error'] \in Outcomes
  BY <1>4, OutcomeFields DEF Show
<1> HIDE DEF m
<1>5. CASE SelectDemo
  <2>1. m.idx \in DOMAIN Demos
    BY <1>2, <1>5, MessageFields DEF SelectDemo, Update, m
  <2>2. selected' = m.idx /\ source' = Demos[m.idx] /\ Show(Blank)
    BY <1>5 DEF SelectDemo, LoadDemo, m
  <2> QED
    BY <1>2, <1>3, <1>4, <1>5, <2>1, <2>2, DemoTexts DEF SelectDemo, Update, Rerender
<1>6. CASE SourceChanged
  <2>1. m.text \in Texts
    BY <1>2, <1>6, MessageFields DEF SourceChanged, Update, m
  <2> QED
    BY <1>2, <1>6, <2>1 DEF SourceChanged, Update, Rerender, m
<1>7. CASE Run
  BY <1>2, <1>3, <1>4, <1>7 DEF Run, Update, Rerender
<1>8. CASE Reset
  BY <1>2, <1>3, <1>4, <1>8, DemoTexts DEF Reset, LoadDemo, Update, Rerender
<1>9. CASE Clear
  BY <1>2, <1>3, <1>4, <1>9 DEF Clear, Update, Rerender
<1>10. CASE KeyDown
  <2>1. Append(Tail(queue), Msg("Run")) \in Seq(Messages)
    BY <1>2, <1>10, MessageKinds DEF KeyDown, Update
  <2> QED
    BY <1>2, <1>10, <2>1 DEF KeyDown, Update, app
<1>11. CASE FileChanged
  BY <1>2, <1>11 DEF FileChanged, Update, Rerender, app
<1>12. CASE FileLoaded
  <2>1. m.text \in Texts
    BY <1>2, <1>12, MessageFields DEF FileLoaded, Update, m
  <2> QED
    BY <1>2, <1>3, <1>4, <1>12, <2>1 DEF FileLoaded, Update, Rerender, m
<1> QED
  BY <1>1, <1>5, <1>6, <1>7, <1>8, <1>9, <1>10, <1>11, <1>12 DEF Scheduler

-----------------------------------------------------------------------------
(* A request of the user: InStep holds again once the part for that        *)
(* request does.                                                           *)
LEMMA Distinct ==
  /\ <<"nothing">> # <<"run">> /\ <<"nothing">> # <<"clear">> /\ <<"nothing">> # <<"reset">>
  /\ <<"run">> # <<"clear">> /\ <<"run">> # <<"reset">> /\ <<"clear">> # <<"reset">>
  /\ \A f \in Files : /\ <<"load", f>> \notin {<<"nothing">>, <<"run">>, <<"clear">>, <<"reset">>}
                      /\ \A g \in Files : <<"load", f>> = <<"load", g>> => f = g
  OBVIOUS

LEMMA EventStep ==
  ASSUME IInv, User
  PROVE  InStep' /\ OneReader'
<1>1. Idle /\ Sent = {}
  BY EmptySent DEF User, OnDemo, OnSrc, OnRun, OnReset, OnClear, OnKeyDown, OnUpload, Send, Idle
<1>2. /\ ~dirty /\ Outcome = page.outcome /\ selected = page.option /\ source = page.text
      /\ request = <<"nothing">> /\ TypeOK /\ chosen = NoFile
  BY <1>1, IdleUntouched DEF Untouched, Idle, IInv, OneReader
<1>3. reads = {} \/ \E f \in Files : reads = {f}
  BY DEF IInv, OneReader
<1>4. ASSUME NEW ms, NEW r, Send(ms, r)
      PROVE  /\ selected' = selected /\ source' = source /\ Outcome' = Outcome
             /\ reads' = reads /\ ~dirty' /\ queue' = ms /\ request' = r
  BY <1>2, <1>4 DEF Send, app, Outcome
<1>5. CASE OnDemo
  <2>1. PICK i \in DOMAIN Demos \ {page.option} :
          /\ Send(<<[kind |-> "SelectDemo", idx |-> i]>>, <<"reset">>)
          /\ page' = [page EXCEPT !.option = i] /\ chosen' = chosen
    BY <1>5 DEF OnDemo
  <2>2. Sent' = {[kind |-> "SelectDemo", idx |-> i]} /\ queue' # <<>>
    BY <1>4, <2>1, MessageKinds, SentOne
  <2>3. page'.option = i
    BY <1>2, <2>1 DEF TypeOK, Pages
  <2>4. Resetting'
    BY <1>4, <2>1, <2>2, <2>3 DEF Resetting, Coming
  <2> QED
    BY <1>2, <1>3, <1>4, <2>1, <2>4, Distinct DEF InStep, OneReader
<1>6. CASE OnSrc
  <2>1. PICK t \in Texts \ {page.text} :
          /\ Send(<<[kind |-> "SourceChanged", text |-> t]>>, <<"nothing">>)
          /\ page' = [page EXCEPT !.text = t] /\ chosen' = chosen
    BY <1>6 DEF OnSrc
  <2>2. Sent' = {[kind |-> "SourceChanged", text |-> t]} /\ Len(queue') = 1
    BY <1>4, <2>1, MessageKinds, SentOne
  <2>3. page'.text = t /\ page'.option = page.option /\ page'.outcome = page.outcome
    BY <1>2, <2>1 DEF TypeOK, Pages
  <2>4. Untouched'
    BY <1>2, <1>4, <2>1, <2>2, <2>3 DEF Untouched
  <2> QED
    BY <1>2, <1>3, <1>4, <2>1, <2>4, Distinct DEF InStep, OneReader
<1>7. CASE OnRun
  <2>1. Sent' = {Msg("Run")} /\ queue' # <<>>
    BY <1>4, <1>7, MessageKinds, SentOne DEF OnRun
  <2>2. Running'
    BY <1>2, <1>4, <1>7, <2>1 DEF Running, Coming, OnRun, Msg
  <2> QED
    BY <1>2, <1>3, <1>4, <1>7, <2>2, Distinct DEF InStep, OneReader, OnRun
<1>8. CASE OnReset
  <2>1. Sent' = {Msg("Reset")} /\ queue' # <<>>
    BY <1>4, <1>8, MessageKinds, SentOne DEF OnReset
  <2>2. Resetting'
    BY <1>2, <1>4, <1>8, <2>1 DEF Resetting, Coming, OnReset, Msg
  <2> QED
    BY <1>2, <1>3, <1>4, <1>8, <2>2, Distinct DEF InStep, OneReader, OnReset
<1>9. CASE OnClear
  <2>1. Sent' = {Msg("Clear")} /\ queue' # <<>>
    BY <1>4, <1>9, MessageKinds, SentOne DEF OnClear
  <2>2. Clearing'
    BY <1>2, <1>4, <1>9, <2>1 DEF Clearing, Coming, OnClear, Msg
  <2> QED
    BY <1>2, <1>3, <1>4, <1>9, <2>2, Distinct DEF InStep, OneReader, OnClear
<1>10. CASE OnKeyDown
  <2>1. PICK b \in BOOLEAN, c \in BOOLEAN :
          LET m == [kind |-> "KeyDown", runs |-> b]
          IN  /\ Send(IF c THEN <<m, m>> ELSE <<m>>, IF b THEN <<"run">> ELSE <<"nothing">>)
              /\ page' = page /\ chosen' = chosen
    BY <1>10 DEF OnKeyDown
  <2> DEFINE m == [kind |-> "KeyDown", runs |-> b]
  <2>2. Sent' = {m} /\ queue' # <<>>
    BY <1>4, <2>1, MessageKinds, SentOne, SentTwice
  <2>3. m.kind = "KeyDown" /\ m.runs = b
    OBVIOUS
  <2>4. request' = IF b THEN <<"run">> ELSE <<"nothing">>
    BY <1>4, <2>1
  <2>5. /\ page' = page /\ chosen' = chosen /\ selected' = selected /\ source' = source
        /\ Outcome' = Outcome /\ reads' = reads /\ ~dirty'
    BY <1>4, <2>1
  <2> HIDE DEF m
  <2>6. b => Running'
    BY <1>2, <2>2, <2>3, <2>5 DEF Running, Coming
  <2>7. ~b => Untouched'
    BY <1>2, <2>2, <2>3, <2>5 DEF Untouched
  <2> QED
    BY <1>2, <1>3, <2>4, <2>5, <2>6, <2>7, Distinct DEF InStep, OneReader
<1>11. CASE OnUpload
  <2>1. PICK f \in Files : Send(<<Msg("FileChanged")>>, <<"nothing">>) /\ chosen' = f /\ page' = page
    BY <1>11 DEF OnUpload
  <2>2. Sent' = {Msg("FileChanged")} /\ Len(queue') = 1
    BY <1>4, <2>1, MessageKinds, SentOne
  <2>3. Untouched'
    BY <1>2, <1>4, <2>1, <2>2 DEF Untouched, Msg
  <2> QED
    BY <1>2, <1>3, <1>4, <2>1, <2>3, Distinct DEF InStep, OneReader
<1> QED
  BY <1>5, <1>6, <1>7, <1>8, <1>9, <1>10, <1>11 DEF User

LEMMA ReadingStep ==
  ASSUME IInv, Reading
  PROVE  InStep' /\ OneReader'
<1>1. Idle /\ Sent = {}
  BY EmptySent DEF Reading, ReadOk, ReadErr, Idle
<1>2. /\ ~dirty /\ Outcome = page.outcome /\ selected = page.option /\ source = page.text
      /\ request = <<"nothing">> /\ TypeOK /\ chosen = NoFile
  BY <1>1, IdleUntouched DEF Untouched, Idle, IInv, OneReader
<1>3. \A f \in reads : reads \ {f} = {} /\ f \in Files
  BY DEF IInv, OneReader, TypeOK
<1>4. CASE ReadOk
  <2>1. PICK f \in reads :
          /\ reads' = reads \ {f} /\ queue' = <<[kind |-> "FileLoaded", text |-> Contents[f]]>>
          /\ request' = <<"load", f>>
          /\ UNCHANGED <<app, dirty, page, chosen, inputs>>
    BY <1>4 DEF ReadOk
  <2>2. Sent' = {[kind |-> "FileLoaded", text |-> Contents[f]]} /\ queue' # <<>>
    BY <1>3, <2>1, DemoTexts, MessageKinds, SentOne
  <2>3. Loading(f)'
    BY <1>2, <2>1, <2>2 DEF Loading, Coming, app
  <2>4. InStep'
    BY <1>3, <2>1, <2>3, Distinct DEF InStep
  <2> QED
    BY <1>2, <1>3, <2>1, <2>4 DEF OneReader
<1>5. CASE ReadErr
  <2>1. queue' = queue /\ UNCHANGED <<app, dirty, page, chosen, request>> /\ reads' = {}
    BY <1>3, <1>5 DEF ReadErr
  <2>2. Untouched'
    BY <1>2, <1>1, <2>1 DEF Untouched, Outcome, app, Sent, Idle
  <2> QED
    BY <1>2, <2>1, <2>2, Distinct DEF InStep, OneReader
<1> QED
  BY <1>4, <1>5 DEF Reading

-----------------------------------------------------------------------------
(* The request that a message on its way is about.                         *)
LEMMA HeadRequest ==
  ASSUME IInv, queue # <<>>, NEW m, m = Head(queue)
  PROVE  /\ m.kind \in {"SourceChanged", "FileChanged"} =>
              request = <<"nothing">> /\ Untouched /\ Len(queue) = 1
         /\ m.kind = "Run" => request = <<"run">> /\ Running
         /\ m.kind = "KeyDown" => \/ request = <<"run">> /\ Running /\ m.runs
                                  \/ request = <<"nothing">> /\ Untouched /\ ~m.runs
         /\ m.kind = "Clear" => request = <<"clear">> /\ Clearing
         /\ m.kind = "Reset" => request = <<"reset">> /\ Resetting /\ selected = page.option
         /\ m.kind = "SelectDemo" => request = <<"reset">> /\ Resetting /\ m.idx = page.option
         /\ m.kind = "FileLoaded" =>
              \E f \in Files : request = <<"load", f>> /\ Loading(f) /\ m.text = Contents[f]
<1>1. m \in Sent /\ request \in Requests
  BY TailSent DEF IInv, TypeOK
<1>2. CASE request = <<"nothing">>
  BY <1>1, <1>2 DEF IInv, InStep, Untouched
<1>3. CASE request = <<"run">>
  BY <1>1, <1>3 DEF IInv, InStep, Running
<1>4. CASE request = <<"clear">>
  BY <1>1, <1>4 DEF IInv, InStep, Clearing
<1>5. CASE request = <<"reset">>
  BY <1>1, <1>5 DEF IInv, InStep, Resetting
<1>6. ASSUME NEW f \in Files, request = <<"load", f>>
      PROVE  Loading(f) /\ m.kind = "FileLoaded" /\ m.text = Contents[f]
  BY <1>1, <1>6 DEF IInv, InStep, Loading
<1> QED
  BY <1>1, <1>2, <1>3, <1>4, <1>5, <1>6, RequestKinds

LEMMA SchedulerStep ==
  ASSUME IInv, Scheduler
  PROVE  InStep' /\ OneReader'
<1> DEFINE m == Head(queue)
<1>1. ASSUME queue # <<>>, queue' = Tail(queue)
      PROVE  (\A x \in Sent' : x \in Sent) /\ (Len(queue) = 1 => queue' = <<>> /\ Sent' = {})
  BY <1>1, Taken DEF IInv, TypeOK, Sent
<1>2. reads = {} \/ \E f \in Files : reads = {f}
  BY DEF IInv, OneReader
<1>3. ASSUME UNCHANGED reads, chosen' = NoFile
      PROVE  OneReader'
  BY <1>2, <1>3 DEF OneReader
<1>4. (queue # <<>> /\ m.kind # "FileChanged") => chosen = NoFile
  BY DEF IInv, OneReader, Msg
<1>5. \A t \in Texts : RunSource(t) \in Outcomes
  BY DEF Outcomes
<1>6. Blank \in Outcomes /\ source \in Texts
  BY DEF Outcomes, IInv, TypeOK
<1> HIDE DEF m
<1>7. CASE SelectDemo
  <2>1. m.kind = "SelectDemo" /\ queue # <<>> /\ queue' = Tail(queue) /\ dirty' = TRUE
    BY <1>7 DEF SelectDemo, Update, Rerender, m
  <2>2. request = <<"reset">> /\ Resetting /\ m.idx = page.option
    BY <2>1, HeadRequest DEF m
  <2>3. selected' = m.idx /\ source' = Demos[m.idx] /\ Outcome' = Blank
    BY <1>6, <1>7, ShowOutcome DEF SelectDemo, LoadDemo, m
  <2>4. UNCHANGED <<page, request, reads, chosen>>
    BY <1>7 DEF SelectDemo, Update
  <2>5. Resetting'
    BY <1>1, <2>1, <2>2, <2>3, <2>4 DEF Resetting, Coming
  <2> QED
    BY <1>3, <1>4, <2>1, <2>2, <2>4, <2>5, Distinct DEF InStep
<1>8. CASE SourceChanged
  <2>1. m.kind = "SourceChanged" /\ queue # <<>> /\ queue' = Tail(queue) /\ dirty' = dirty
    BY <1>8 DEF SourceChanged, Update, Rerender, m, IInv, TypeOK
  <2>2. request = <<"nothing">> /\ Untouched /\ Len(queue) = 1
    BY <2>1, HeadRequest DEF m
  <2>3. Outcome' = Outcome /\ source' = m.text
    BY <1>8 DEF SourceChanged, Outcome, m
  <2>4. UNCHANGED <<page, request, selected, reads, chosen>>
    BY <1>8 DEF SourceChanged, Update
  <2>5. source' = page.text
    BY <2>1, <2>2, <2>3, TailSent DEF Untouched, m, IInv, TypeOK
  <2>6. Untouched'
    BY <1>1, <2>1, <2>2, <2>3, <2>4, <2>5 DEF Untouched
  <2> QED
    BY <1>3, <1>4, <2>1, <2>2, <2>4, <2>6, Distinct DEF InStep
<1>9. CASE Run
  <2>1. m.kind = "Run" /\ queue # <<>> /\ queue' = Tail(queue) /\ dirty' = TRUE
    BY <1>9 DEF Run, Update, Rerender, m
  <2>2. request = <<"run">> /\ Running
    BY <2>1, HeadRequest DEF m
  <2>3. Outcome' = RunSource(source) /\ UNCHANGED <<page, request, selected, source, reads, chosen>>
    BY <1>5, <1>6, <1>9, ShowOutcome DEF Run, Update
  <2>4. Running'
    BY <1>1, <2>1, <2>2, <2>3 DEF Running, Coming
  <2> QED
    BY <1>3, <1>4, <2>1, <2>2, <2>3, <2>4, Distinct DEF InStep
<1>10. CASE Reset
  <2>1. m.kind = "Reset" /\ queue # <<>> /\ queue' = Tail(queue) /\ dirty' = TRUE
    BY <1>10 DEF Reset, Update, Rerender, m
  <2>2. request = <<"reset">> /\ Resetting /\ selected = page.option
    BY <2>1, HeadRequest DEF m
  <2>3. selected' = selected /\ source' = Demos[selected] /\ Outcome' = Blank
    BY <1>6, <1>10, ShowOutcome DEF Reset, LoadDemo
  <2>4. UNCHANGED <<page, request, reads, chosen>>
    BY <1>10 DEF Reset, Update
  <2>5. Resetting'
    BY <1>1, <2>1, <2>2, <2>3, <2>4 DEF Resetting, Coming
  <2> QED
    BY <1>3, <1>4, <2>1, <2>2, <2>4, <2>5, Distinct DEF InStep
<1>11. CASE Clear
  <2>1. m.kind = "Clear" /\ queue # <<>> /\ queue' = Tail(queue) /\ dirty' = TRUE
    BY <1>11 DEF Clear, Update, Rerender, m
  <2>2. request = <<"clear">> /\ Clearing
    BY <2>1, HeadRequest DEF m
  <2>3. Outcome' = Blank /\ UNCHANGED <<page, request, selected, source, reads, chosen>>
    BY <1>6, <1>11, ShowOutcome DEF Clear, Update
  <2>4. Clearing'
    BY <1>1, <2>1, <2>2, <2>3 DEF Clearing, Coming
  <2> QED
    BY <1>3, <1>4, <2>1, <2>2, <2>3, <2>4, Distinct DEF InStep
<1>12. CASE KeyDown
  <2>1. m.kind = "KeyDown" /\ queue # <<>>
    BY <1>12 DEF KeyDown, Update, m
  <2>2. /\ UNCHANGED <<page, request, selected, source, dirty, reads, chosen>>
        /\ Outcome' = Outcome
    BY <1>12 DEF KeyDown, Update, app, Outcome
  <2>3. CASE m.runs
    <3>1. request = <<"run">> /\ Running
      BY <2>1, <2>3, HeadRequest DEF m
    <3>2. queue' = Append(Tail(queue), Msg("Run"))
      BY <1>12, <2>3 DEF KeyDown, m
    <3>3. queue' # <<>> /\ \A x \in Sent' : x \in Sent \/ x = Msg("Run")
      BY <2>1, <3>2, TakenForRun, MessageKinds DEF IInv, TypeOK
    <3>4. Running'
      BY <2>2, <3>1, <3>3 DEF Running, Coming, Msg
    <3> QED
      BY <1>3, <1>4, <2>1, <2>2, <3>1, <3>4, Distinct DEF InStep
  <2>4. CASE ~m.runs
    <3>1. request = <<"nothing">> /\ Untouched
      BY <2>1, <2>4, HeadRequest DEF m
    <3>2. queue' = Tail(queue)
      BY <1>12, <2>4 DEF KeyDown, m
    <3>3. source = page.text
      BY <2>1, <3>1, TailSent DEF Untouched, m, IInv, TypeOK
    <3>4. \A x \in Sent' : x.kind = "KeyDown" /\ ~x.runs
      BY <1>1, <2>1, <3>1, <3>2, TailSent DEF Untouched, m, IInv, TypeOK
    <3>5. Untouched'
      BY <2>2, <3>1, <3>3, <3>4 DEF Untouched
    <3> QED
      BY <1>3, <1>4, <2>1, <2>2, <3>1, <3>5, Distinct DEF InStep
  <2> QED
    BY <2>3, <2>4
<1>13. CASE FileChanged
  <2>1. m.kind = "FileChanged" /\ queue # <<>> /\ queue' = Tail(queue) /\ dirty' = dirty
    BY <1>13 DEF FileChanged, Update, Rerender, m, IInv, TypeOK
  <2>2. request = <<"nothing">> /\ Untouched /\ Len(queue) = 1
    BY <2>1, HeadRequest DEF m
  <2>3. Outcome' = Outcome /\ UNCHANGED <<page, request, selected, source>>
    BY <1>13 DEF FileChanged, Update, app, Outcome
  <2>4. source = page.text
    BY <2>1, <2>2, TailSent DEF Untouched, m, IInv, TypeOK
  <2>5. Untouched'
    BY <1>1, <2>1, <2>2, <2>3, <2>4 DEF Untouched
  <2>6. OneReader'
    BY <1>2, <1>13 DEF FileChanged, OneReader, IInv, TypeOK
  <2> QED
    BY <2>2, <2>3, <2>5, <2>6, Distinct DEF InStep
<1>14. CASE FileLoaded
  <2>1. m.kind = "FileLoaded" /\ queue # <<>> /\ queue' = Tail(queue) /\ dirty' = TRUE
    BY <1>14 DEF FileLoaded, Update, Rerender, m
  <2>2. PICK f \in Files : request = <<"load", f>> /\ Loading(f) /\ m.text = Contents[f]
    BY <2>1, HeadRequest DEF m
  <2>3. /\ Outcome' = Blank /\ source' = m.text
        /\ UNCHANGED <<page, request, selected, reads, chosen>>
    BY <1>6, <1>14, ShowOutcome DEF FileLoaded, Update, m
  <2>4. Loading(f)'
    BY <1>1, <2>1, <2>2, <2>3 DEF Loading, Coming
  <2> QED
    BY <1>3, <1>4, <2>1, <2>2, <2>3, <2>4, Distinct DEF InStep
<1>15. CASE View
  <2>1. /\ queue = <<>> /\ queue' = <<>> /\ Sent' = {} /\ ~dirty' /\ request' = <<"nothing">>
        /\ UNCHANGED <<reads, chosen>>
    BY <1>15 DEF View, Sent
  <2>2. /\ page'.option = selected' /\ page'.text = source' /\ page'.outcome = Outcome'
    BY <1>15 DEF View, Outcome, app
  <2>3. Untouched'
    BY <2>1, <2>2 DEF Untouched
  <2>4. chosen = NoFile
    BY <2>1 DEF IInv, OneReader
  <2> QED
    BY <1>3, <2>1, <2>3, <2>4, Distinct DEF InStep
<1> QED
  BY <1>7, <1>8, <1>9, <1>10, <1>11, <1>12, <1>13, <1>14, <1>15 DEF Scheduler

LEMMA NextIInv == IInv /\ [Next]_vars => IInv'
<1> SUFFICES ASSUME IInv, [Next]_vars PROVE IInv'
  OBVIOUS
<1>1. CASE User
  BY <1>1, EventType, EventStep DEF IInv
<1>2. CASE Reading
  BY <1>2, ReadingType, ReadingStep DEF IInv
<1>3. CASE Scheduler
  BY <1>3, SchedulerType, SchedulerStep DEF IInv
<1>4. CASE UNCHANGED vars
  <2>1. UNCHANGED <<selected, source, output, status, error, reads, queue, dirty, page, chosen,
                    request, inputs>>
    BY <1>4 DEF vars, app
  <2> QED
    BY <2>1 DEF IInv, TypeOK, InStep, OneReader, Untouched, Running, Clearing, Resetting, Loading,
                Coming, Sent, Outcome
<1> QED
  BY <1>1, <1>2, <1>3, <1>4 DEF Next, Quiet

LEMMA InvariantHolds == Spec => []IInv
<1> QED
  BY InitIInv, NextIInv, PTL DEF Spec

-----------------------------------------------------------------------------
(***************************************************************************)
(* The fields of App, the queue and the document always have their types,  *)
(* and the outcome shown is always that of some text.                      *)
(***************************************************************************)
THEOREM TypeCorrect == Spec => []TypeOK
<1>1. IInv => TypeOK
  BY DEF IInv
<1> QED
  BY <1>1, InvariantHolds, PTL

(***************************************************************************)
(* Between two events the document shows the fields of App.                *)
(***************************************************************************)
THEOREM PageShowsApp == Spec => []PageIsApp
<1>1. IInv => PageIsApp
  <2> SUFFICES ASSUME IInv, Idle
               PROVE  page = [option |-> selected, text |-> source,
                              outcome |-> [output |-> output, status |-> status, error |-> error]]
    BY DEF PageIsApp
  <2>1. Untouched /\ Sent = {}
    BY IdleUntouched, EmptySent DEF Idle
  <2>2. page = [option |-> page.option, text |-> page.text, outcome |-> page.outcome]
    BY DEF IInv, TypeOK, Pages
  <2> QED
    BY <2>1, <2>2 DEF Untouched, Outcome
<1> QED
  BY <1>1, InvariantHolds, PTL

(***************************************************************************)
(* Between two events the file input is empty.                             *)
(***************************************************************************)
THEOREM InputStaysEmpty == Spec => []InputEmpty
<1>1. IInv => InputEmpty
  BY DEF IInv, OneReader, InputEmpty, Idle
<1> QED
  BY <1>1, InvariantHolds, PTL

-----------------------------------------------------------------------------
(* The file an upload is about, and when it stays the same.                *)
LEMMA AwaitedIs ==
  /\ chosen # NoFile => Awaited = chosen
  /\ chosen = NoFile /\ reads = {} => Awaited = NoFile
  /\ \A f : chosen = NoFile /\ reads = {f} => Awaited = f
<1>1. chosen # NoFile => Awaited = chosen
  BY DEF Awaited
<1>2. chosen = NoFile /\ reads = {} => Awaited = NoFile
  BY DEF Awaited
<1>3. ASSUME NEW f, chosen = NoFile, reads = {f}
      PROVE  Awaited = f
  <2>1. Awaited = CHOOSE x \in reads : TRUE
    BY <1>3 DEF Awaited
  <2>2. (CHOOSE x \in reads : TRUE) \in reads
    BY <1>3
  <2> QED
    BY <1>3, <2>1, <2>2
<1> QED
  BY <1>1, <1>2, <1>3

LEMMA AwaitedStays ==
  ASSUME UNCHANGED <<chosen, reads>>
  PROVE  Awaited' = Awaited
  BY DEF Awaited

(* What an event finds and what it leaves alone.                           *)
LEMMA EventFacts ==
  ASSUME IInv, NEW ms, NEW r, Send(ms, r)
  PROVE  /\ request = <<"nothing">> /\ request' = r /\ reads' = reads /\ chosen = NoFile
         /\ chosen' = chosen => Awaited' = Awaited
<1>1. Idle /\ request' = r /\ reads' = reads
  BY DEF Send
<1>2. request = <<"nothing">> /\ chosen = NoFile
  BY <1>1, IdleUntouched DEF IInv, OneReader, Idle
<1> QED
  BY <1>1, <1>2, AwaitedStays

LEMMA EventRefines ==
  ASSUME IInv, User
  PROVE  [E!Next]_E!vars
<1> USE DEF E!Nothing, E!Asked
<1>0. page \in Pages
  BY DEF IInv, TypeOK
<1>1. CASE OnDemo
  <2>1. PICK i \in DOMAIN Demos \ {page.option} :
          /\ Send(<<[kind |-> "SelectDemo", idx |-> i]>>, <<"reset">>)
          /\ page' = [page EXCEPT !.option = i] /\ chosen' = chosen
    BY <1>1 DEF OnDemo
  <2>2. page'.option = i /\ page'.text = page.text /\ page'.outcome = page.outcome
    BY <1>0, <2>1 DEF Pages
  <2>3. E!Select
    BY <2>1, <2>2, EventFacts DEF E!Select
  <2> QED
    BY <2>3 DEF E!Next
<1>2. CASE OnSrc
  <2>1. PICK t \in Texts \ {page.text} :
          /\ Send(<<[kind |-> "SourceChanged", text |-> t]>>, <<"nothing">>)
          /\ page' = [page EXCEPT !.text = t] /\ chosen' = chosen
    BY <1>2 DEF OnSrc
  <2>2. page'.option = page.option /\ page'.text = t /\ page'.outcome = page.outcome
    BY <1>0, <2>1 DEF Pages
  <2>3. E!Edit
    BY <2>1, <2>2, EventFacts DEF E!Edit
  <2> QED
    BY <2>3 DEF E!Next
<1>3. CASE OnRun \/ OnReset \/ OnClear
  <2>1. PICK r \in {<<"run">>, <<"clear">>, <<"reset">>} :
          (\E ms : Send(ms, r)) /\ page' = page /\ chosen' = chosen
    BY <1>3 DEF OnRun, OnReset, OnClear
  <2>2. E!Ask
    BY <2>1, EventFacts DEF E!Ask
  <2> QED
    BY <2>2 DEF E!Next
<1>4. CASE OnKeyDown
  <2>1. PICK b \in BOOLEAN :
          /\ \E ms : Send(ms, IF b THEN <<"run">> ELSE <<"nothing">>)
          /\ page' = page /\ chosen' = chosen
    BY <1>4 DEF OnKeyDown
  <2>2. CASE b
    <3>1. E!Ask
      BY <2>1, <2>2, EventFacts DEF E!Ask
    <3> QED
      BY <3>1 DEF E!Next
  <2>3. CASE ~b
    BY <2>1, <2>3, EventFacts DEF E!vars
  <2> QED
    BY <2>2, <2>3
<1>5. CASE OnUpload
  <2>1. PICK f \in Files : Send(<<Msg("FileChanged")>>, <<"nothing">>) /\ chosen' = f /\ page' = page
    BY <1>5 DEF OnUpload
  <2>2. chosen' # NoFile
    BY <2>1, UiAssumption
  <2>3. Awaited' = f
    BY <2>1, <2>2 DEF Awaited
  <2>4. E!Upload
    BY <2>1, <2>3, EventFacts DEF E!Upload
  <2> QED
    BY <2>4 DEF E!Next
<1> QED
  BY <1>1, <1>2, <1>3, <1>4, <1>5 DEF User

LEMMA ReadingRefines ==
  ASSUME IInv, Reading
  PROVE  [E!Next]_E!vars
<1> USE DEF E!Nothing, E!Asked
<1>1. Idle
  BY DEF Reading, ReadOk, ReadErr
<1>2. request = <<"nothing">> /\ chosen = NoFile
  BY <1>1, IdleUntouched DEF IInv, OneReader, Idle
<1>3. PICK f \in reads :
        /\ reads' = reads \ {f} /\ chosen' = chosen /\ page' = page
        /\ \/ f \in Readable /\ request' = <<"load", f>>
           \/ f \notin Readable /\ request' = request
  BY DEF Reading, ReadOk, ReadErr
<1>4. reads = {f} /\ reads' = {} /\ f \in Files
  BY <1>3, UiAssumption DEF IInv, OneReader
<1>5. Awaited = f
  BY <1>2, <1>4, AwaitedIs
<1>6. Awaited' = NoFile
  BY <1>2, <1>3, <1>4 DEF Awaited
<1>7. E!FileRead \/ E!FileLost
  BY <1>2, <1>3, <1>4, <1>5, <1>6 DEF E!FileRead, E!FileLost
<1> QED
  BY <1>7 DEF E!Next

LEMMA ViewRefines ==
  ASSUME IInv, View
  PROVE  E!Next
<1> USE DEF E!Nothing, E!Asked
<1>1. /\ dirty /\ request' = <<"nothing">>
      /\ page'.option = selected /\ page'.text = source /\ page'.outcome = Outcome
      /\ Awaited' = Awaited
  BY AwaitedStays DEF View, Outcome
<1>2. request \in Requests /\ request # <<"nothing">> /\ source \in Texts
  BY <1>1 DEF IInv, TypeOK, InStep, Untouched
<1>3. CASE request = <<"run">>
  <2>1. source = page.text /\ selected = page.option /\ Outcome = RunSource(source)
    BY <1>1, <1>3 DEF IInv, InStep, Running
  <2> QED
    BY <1>1, <1>2, <1>3, <2>1 DEF E!Next, E!Answer, E!AnswerRun
<1>4. CASE request = <<"clear">>
  <2>1. source = page.text /\ selected = page.option /\ Outcome = Blank
    BY <1>1, <1>4 DEF IInv, InStep, Clearing
  <2> QED
    BY <1>1, <1>4, <2>1 DEF E!Next, E!Answer, E!AnswerClear
<1>5. CASE request = <<"reset">>
  <2>1. source = Demos[page.option] /\ selected = page.option /\ Outcome = Blank
    BY <1>1, <1>5 DEF IInv, InStep, Resetting
  <2> QED
    BY <1>1, <1>5, <2>1 DEF E!Next, E!Answer, E!AnswerReset
<1>6. ASSUME NEW f \in Files, request = <<"load", f>>
      PROVE  E!Next
  <2>1. source = Contents[f] /\ selected = page.option /\ Outcome = Blank
    BY <1>1, <1>6 DEF IInv, InStep, Loading
  <2> QED
    BY <1>1, <1>6, <2>1 DEF E!Next, E!Answer, E!AnswerLoad
<1> QED
  BY <1>2, <1>3, <1>4, <1>5, <1>6, RequestKinds

LEMMA UpdateRefines ==
  ASSUME IInv, Scheduler, ~View
  PROVE  UNCHANGED E!vars
<1>1. UNCHANGED <<page, request>>
  BY DEF Scheduler, SelectDemo, SourceChanged, Run, Reset, Clear, KeyDown, FileChanged, FileLoaded,
         Update
<1>2. CASE FileChanged
  <2>1. chosen' = NoFile /\ reads' = IF chosen = NoFile THEN reads ELSE {chosen}
    BY <1>2 DEF FileChanged
  <2>2. CASE chosen = NoFile
    BY <1>1, <2>1, <2>2, AwaitedStays DEF E!vars
  <2>3. CASE chosen # NoFile
    <3>1. Awaited' = CHOOSE f \in {chosen} : TRUE
      BY <2>1, <2>3 DEF Awaited
    <3>2. (CHOOSE f \in {chosen} : TRUE) \in {chosen}
      OBVIOUS
    <3>3. Awaited = chosen
      BY <2>3, AwaitedIs
    <3>4. Awaited' = Awaited
      BY <3>1, <3>2, <3>3
    <3> QED
      BY <1>1, <3>4 DEF E!vars
  <2> QED
    BY <2>2, <2>3
<1>3. CASE ~FileChanged
  <2>1. UNCHANGED <<chosen, reads>>
    BY <1>3 DEF Scheduler, SelectDemo, SourceChanged, Run, Reset, Clear, KeyDown, FileLoaded
  <2> QED
    BY <1>1, <2>1, AwaitedStays DEF E!vars
<1> QED
  BY <1>2, <1>3

(***************************************************************************)
(* Whatever the user does and however long the reads take, the document    *)
(* takes only the steps of the abstract editor.                            *)
(***************************************************************************)
THEOREM WebUiImplementsEditor == Spec => ImplementsEditor
<1>1. Init => E!Init
  <2> SUFFICES ASSUME Init PROVE E!Init
    OBVIOUS
  <2>1. Awaited = NoFile
    BY AwaitedIs DEF Init
  <2> QED
    BY <2>1 DEF Init, E!Init, E!Nothing
<1>2. IInv /\ [Next]_vars => [E!Next]_E!vars
  <2> SUFFICES ASSUME IInv, [Next]_vars PROVE [E!Next]_E!vars
    OBVIOUS
  <2>1. CASE UNCHANGED vars
    BY <2>1, AwaitedStays DEF vars, app, E!vars
  <2> QED
    BY <2>1, EventRefines, ReadingRefines, ViewRefines, UpdateRefines DEF Next, Quiet, Scheduler
<1> QED
  BY <1>1, <1>2, InvariantHolds, PTL DEF Spec, ImplementsEditor, E!Safety
=============================================================================
