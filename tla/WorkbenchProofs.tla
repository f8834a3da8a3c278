--------------------------- MODULE WorkbenchProofs ---------------------------
(***************************************************************************)
(* Invariants of the pages of the workbench, proved for every set of       *)
(* packages, jobs, components, objects and runs and any number of requests *)
(* on their way.  A page moves by its own actions, or is mounted afresh    *)
(* when the router leaves or opens a page; each page has an inductive      *)
(* invariant of its own.                                                   *)
(***************************************************************************)
EXTENDS Workbench, TLAPS

(* What a step of the workbench does to each page. *)
LEMMA DetailMoves ==
    ASSUME [Next]_vars
    PROVE  detail' = MountedDetail \/ detail' = detail \/ DetailNext
  BY DEF Next, vars, Leave, Open, Mounts, InFactory, InObservatory, InStore,
         observatoryVars, detailVars

LEMMA MonitorMoves ==
    ASSUME [Next]_vars
    PROVE  \/ /\ monitor' = MountedMonitor(CHOOSE c \in Monitored : TRUE)
              /\ \E open \in BOOLEAN : telemetry' \in MonitorServers(open)
           \/ UNCHANGED monitorVars
           \/ MonitorNext
  <1>1. CASE Leave \/ \E p \in WorkPages : Open(p)
    <2>1. \E p : Mounts(p)
      BY <1>1 DEF Leave, Open
    <2> QED BY <2>1 DEF Mounts
  <1>2. CASE InFactory \/ InObservatory \/ InStore \/ UNCHANGED vars
    BY <1>2 DEF InFactory, InObservatory, InStore, vars, observatoryVars, monitorVars
  <1> QED BY <1>1, <1>2 DEF Next

-----------------------------------------------------------------------------
(* The analysis of a target: while a drag goes on the view is not a fixed    *)
(* one, so that a pan cannot reach it.                                       *)
DetailRecords ==
               [reading : {"insights", "observation", "none"}, data : BOOLEAN,
                curve : Curves \cup {<<>>}, error : BOOLEAN,
                mode : {"free", "polar", "transit", "focus_planet"}, dragging : BOOLEAN,
                rightDrag : BOOLEAN, panned : BOOLEAN, playing : BOOLEAN,
                time : Nat, emitted : Int, lastSim : Int, clicked : BOOLEAN,
                pixel : Pixels \cup {NoPixel, CentrePixel}]
DetailType == detail \in DetailRecords
DragFrees == detail.dragging => detail.mode \notin {"polar", "transit"}
DetailInv == DetailType /\ DragFrees /\ CentredViews

LEMMA TickKeepsType ==
    ASSUME NEW d \in DetailRecords, NEW t \in Int
    PROVE  [d EXCEPT !.lastSim = t, !.clicked = FALSE] \in DetailRecords
  BY DEF DetailRecords

LEMMA DetailMounted ==
    ASSUME detail' = MountedDetail
    PROVE  DetailInv'
  BY DEF MountedDetail, DetailInv, DetailType, DetailRecords, DragFrees, CentredViews, NoTime

LEMMA DetailStep ==
    ASSUME DetailInv, DetailNext
    PROVE  DetailInv'
  <1> USE DEF DetailInv, DetailType, DetailRecords, DragFrees, CentredViews
  <1>1. CASE InsightsAnswered \/ InsightsFailed \/ ObservationAnswered
    BY <1>1 DEF InsightsAnswered, InsightsFailed, ObservationAnswered
  <1>2. ASSUME NEW right \in BOOLEAN, MouseDown(right) PROVE DetailInv'
    BY <1>2 DEF MouseDown, LeavesFixedView, CameraMode
  <1>3. ASSUME NEW shift \in BOOLEAN, MouseMove(shift) PROVE DetailInv'
    BY <1>3 DEF MouseMove
  <1>4. CASE MouseUp \/ WheelOut
    <2>1. CASE MouseUp
      BY <2>1 DEF MouseUp
    <2>2. CASE WheelOut
      <3>1. detail' = [detail EXCEPT !.mode = "free", !.rightDrag = FALSE]
        BY <2>2 DEF WheelOut, CameraMode
      <3> QED BY <3>1
    <2> QED BY <1>4, <2>1, <2>2
  <1>5. ASSUME NEW b \in CameraButtons, CameraButton(b) PROVE DetailInv'
    <2>1. ~detail.dragging
      BY <1>5 DEF CameraButton
    <2>2. CASE b = "reset"
      BY <1>5, <2>1, <2>2 DEF CameraButton, CameraMode
    <2>3. CASE b = "polar"
      BY <1>5, <2>1, <2>3 DEF CameraButton, CameraMode
    <2>4. CASE b = "transit"
      BY <1>5, <2>1, <2>4 DEF CameraButton, CameraMode
    <2>5. CASE b = "focus"
      BY <1>5, <2>1, <2>5, ZenonT(40) DEF CameraButton, CameraMode
    <2>6. CASE b \notin {"reset", "polar", "transit", "focus"}
      <3>1. detail' \in {detail, [detail EXCEPT !.mode = "free", !.rightDrag = FALSE]}
        BY <1>5, <2>6 DEF CameraButton, CameraMode
      <3> QED BY <2>1, <3>1
    <2> QED BY <2>2, <2>3, <2>4, <2>5, <2>6
  <1>6. CASE TogglePlay \/ ClickChart
    BY <1>6 DEF TogglePlay, ClickChart
  <1>7. CASE Frame
    <2> DEFINE time  == IF detail.playing THEN detail.time + 1 ELSE detail.time
               moved == [detail EXCEPT !.time = time,
                            !.panned = @ \/ (detail.mode = "focus_planet" /\ insight.planet)]
               sent  == [moved EXCEPT !.emitted = time]
    <2>1. time \in Nat
      OBVIOUS
    <2>2. detail' \in {moved, sent, [sent EXCEPT !.lastSim = time, !.clicked = FALSE]}
      BY <1>7 DEF Frame, ReceivesTick
    <2>3. /\ moved \in DetailRecords
          /\ moved.mode = detail.mode /\ moved.dragging = detail.dragging
          /\ detail.mode # "focus_planet" => moved.panned = detail.panned
      <3> HIDE DEF time
      <3> QED BY <2>1
    <2>4. /\ sent \in DetailRecords
          /\ sent.mode = detail.mode /\ sent.dragging = detail.dragging
          /\ detail.mode # "focus_planet" => sent.panned = detail.panned
      <3> HIDE DEF time, moved
      <3> QED BY <2>1, <2>3
    <2>5. CASE detail' \in {moved, sent}
      <3> HIDE DEF time, moved, sent
      <3> QED BY <2>3, <2>4, <2>5
    <2>6. CASE detail' = [sent EXCEPT !.lastSim = time, !.clicked = FALSE]
      <3> HIDE DEF time, moved, sent
      <3>1. detail' \in DetailRecords
        <4> HIDE DEF DetailRecords
        <4>1. time \in Int /\ sent \in DetailRecords
          BY <2>1, <2>4
        <4>2. [sent EXCEPT !.lastSim = time, !.clicked = FALSE] \in DetailRecords
          BY <4>1, TickKeepsType
        <4> QED BY <2>6, <4>2
      <3>2. /\ detail'.mode = sent.mode /\ detail'.dragging = sent.dragging
            /\ detail'.panned = sent.panned
        BY <2>4, <2>6
      <3> QED BY <2>4, <3>1, <3>2
    <2> QED BY <2>2, <2>5, <2>6
  <1>8. ASSUME NEW pixel \in Pixels, SelectPixel(pixel) PROVE DetailInv'
    BY <1>8 DEF SelectPixel, HandleSelectPixel
  <1> QED BY <1>1, <1>2, <1>3, <1>4, <1>5, <1>6, <1>7, <1>8 DEF DetailNext

LEMMA DetailAlways == Spec => []DetailInv
  <1>1. Init => DetailInv
    <2> SUFFICES ASSUME Init PROVE DetailInv
      OBVIOUS
    <2>1. detail = MountedDetail
      BY DEF Init
    <2> QED
      BY <2>1 DEF MountedDetail, DetailInv, DetailType, DetailRecords, DragFrees, CentredViews, NoTime
  <1>2. DetailInv /\ [Next]_vars => DetailInv'
    <2> SUFFICES ASSUME DetailInv, [Next]_vars PROVE DetailInv'
      OBVIOUS
    <2>1. CASE detail' = detail
      BY <2>1 DEF DetailInv, DetailType, DetailRecords, DragFrees, CentredViews
    <2> QED BY <2>1, DetailMoves, DetailMounted, DetailStep
  <1> QED BY <1>1, <1>2, PTL DEF Spec

(* The polar and the transit view stay centred on the star, whatever is      *)
(* dragged, focused or played (OrbitViewer3D and CameraControls).            *)
THEOREM ViewsStayCentred == Spec => []CentredViews
  <1>1. DetailInv => CentredViews
    BY DEF DetailInv
  <1> QED BY <1>1, DetailAlways, PTL

-----------------------------------------------------------------------------
(* Monitoring: the latest request asks for what the header names, a served   *)
(* one carries the answer to its own question, and when nothing is loading   *)
(* and nothing failed the answer to the latest one is on screen.             *)
Responses ==
    [component : Monitored \cup {"none"}, range : TimeRanges \cup {"none"},
     status : {"up", "degraded", "no_data", "none"},
     last : {s.last : s \in SignalStates} \cup {<<>>}]
MonitorRequests ==
    [component : Monitored, range : TimeRanges, phase : {"sent", "served"}, body : Responses,
     latest : BOOLEAN]
MonitorRecords ==
    [component : Monitored, range : TimeRanges, response : Responses, loading : BOOLEAN,
     error : BOOLEAN, auto : AutoRefresh,
     statuses : [Monitored -> {"up", "degraded", "no_data", "none"}],
     reads : SUBSET MonitorRequests]

MonitorType == monitor \in MonitorRecords /\ telemetry \in [Monitored -> SignalStates]
AsksForChoice ==
    \A r \in monitor.reads : r.latest => r.component = monitor.component /\ r.range = monitor.range
AnswersItsQuestion ==
    \A r \in monitor.reads : r.phase = "served" =>
        /\ r.body.component = r.component /\ r.body.range = r.range
        /\ r.body.status # "none"
ResponseFits ==
    ~monitor.loading /\ ~monitor.error =>
        /\ monitor.response.component = monitor.component
        /\ monitor.response.range = monitor.range
        /\ monitor.statuses[monitor.component] = monitor.response.status
        /\ monitor.response.status # "none"
MonitorWaits == monitor.loading => \E r \in monitor.reads : r.latest
MonitorInv == MonitorType /\ AsksForChoice /\ AnswersItsQuestion /\ ResponseFits /\ MonitorWaits

(* A new question: every request before it is an old one. *)
LEMMA AskedAnew ==
    ASSUME NEW p \in MonitorRecords,
           \A r \in p.reads : r.phase = "served" =>
               /\ r.body.component = r.component /\ r.body.range = r.range
               /\ r.body.status # "none",
           monitor' = LoadTelemetry(p), telemetry' \in [Monitored -> SignalStates]
    PROVE  MonitorInv'
  <1> DEFINE asked == [component |-> p.component, range |-> p.range, phase |-> "sent",
                       body |-> NoResponse, latest |-> TRUE]
             old == {[r EXCEPT !.latest = FALSE] : r \in p.reads}
  <1>1. NoResponse \in Responses
    BY DEF NoResponse, Responses
  <1>2. asked \in MonitorRequests
    BY <1>1 DEF MonitorRequests, MonitorRecords
  <1>3. ASSUME NEW r \in old
        PROVE  /\ r \in MonitorRequests /\ ~r.latest
               /\ r.phase = "served" => /\ r.body.component = r.component /\ r.body.range = r.range
                                        /\ r.body.status # "none"
    <2>1. PICK q \in p.reads : r = [q EXCEPT !.latest = FALSE]
      OBVIOUS
    <2>2. q \in MonitorRequests
      BY DEF MonitorRecords
    <2>3. r \in MonitorRequests
      BY <2>1, <2>2 DEF MonitorRequests
    <2>4. /\ ~r.latest /\ r.phase = q.phase /\ r.body = q.body
          /\ r.component = q.component /\ r.range = q.range
      BY <2>1, <2>2 DEF MonitorRequests
    <2> QED BY <2>3, <2>4
  <1>4. monitor' = [p EXCEPT !.reads = old \cup {asked}, !.loading = TRUE, !.error = FALSE]
    BY DEF LoadTelemetry
  <1> HIDE DEF asked, old
  <1>5. old \cup {asked} \in SUBSET MonitorRequests
    BY <1>2, <1>3
  <1>6. monitor' \in MonitorRecords
    BY <1>4, <1>5 DEF MonitorRecords
  <1>7. /\ monitor'.reads = old \cup {asked} /\ monitor'.loading
        /\ monitor'.component = p.component /\ monitor'.range = p.range
    BY <1>4 DEF MonitorRecords
  <1>8. asked.latest /\ asked.component = p.component /\ asked.range = p.range /\ asked.phase = "sent"
    BY DEF asked
  <1>9. MonitorType'
    BY <1>6 DEF MonitorType
  <1>10. AsksForChoice' /\ AnswersItsQuestion'
    BY <1>3, <1>7, <1>8 DEF AsksForChoice, AnswersItsQuestion
  <1>11. ResponseFits' /\ MonitorWaits'
    BY <1>7, <1>8 DEF ResponseFits, MonitorWaits
  <1> QED BY <1>9, <1>10, <1>11 DEF MonitorInv

LEMMA MonitorMounted ==
    ASSUME NEW m, m = MountedMonitor(CHOOSE c \in Monitored : TRUE)
    PROVE  /\ m \in MonitorRecords /\ m.loading
           /\ \E r \in m.reads : r.latest
           /\ \A r \in m.reads : /\ r.phase = "sent"
                                 /\ r.component = m.component /\ r.range = m.range
  <1> DEFINE first == [component |-> CHOOSE c \in Monitored : TRUE,
                       range |-> CHOOSE r \in TimeRanges : TRUE,
                       response |-> NoResponse, loading |-> TRUE, error |-> FALSE, auto |-> "30s",
                       statuses |-> [k \in Monitored |-> "none"], reads |-> {}]
             asked == [component |-> first.component, range |-> first.range, phase |-> "sent",
                       body |-> NoResponse, latest |-> TRUE]
             old == {[r EXCEPT !.latest = FALSE] : r \in first.reads}
  <1>1. (CHOOSE c \in Monitored : TRUE) \in Monitored /\ (CHOOSE r \in TimeRanges : TRUE) \in TimeRanges
    BY MonitoringConstants
  <1>2. NoResponse \in Responses
    BY DEF NoResponse, Responses
  <1>3. first \in MonitorRecords
    BY <1>1, <1>2 DEF MonitorRecords, AutoRefresh
  <1>4. m = LoadTelemetry(first)
    BY DEF MountedMonitor
  <1>5. first.reads = {}
    OBVIOUS
  <1> HIDE DEF first
  <1>6. asked \in MonitorRequests
    BY <1>2, <1>3 DEF MonitorRequests, MonitorRecords
  <1>7. /\ asked.latest /\ asked.phase = "sent"
        /\ asked.component = first.component /\ asked.range = first.range
    OBVIOUS
  <1>8. old = {}
    BY <1>5
  <1>9. m = [first EXCEPT !.reads = old \cup {asked}, !.loading = TRUE, !.error = FALSE]
    BY <1>4 DEF LoadTelemetry
  <1> HIDE DEF asked, old
  <1>10. old \cup {asked} \in SUBSET MonitorRequests /\ old \cup {asked} = {asked}
    BY <1>6, <1>8
  <1>11. m \in MonitorRecords
    BY <1>3, <1>9, <1>10 DEF MonitorRecords
  <1>12. /\ m.reads = old \cup {asked} /\ m.loading
         /\ m.component = first.component /\ m.range = first.range
    BY <1>3, <1>9 DEF MonitorRecords
  <1> QED BY <1>7, <1>10, <1>11, <1>12

LEMMA MonitorServersTyped ==
    ASSUME NEW open \in BOOLEAN, NEW t \in MonitorServers(open)
    PROVE  t \in [Monitored -> SignalStates]
  <1>1. (CHOOSE s \in SignalStates : TRUE) \in SignalStates
    BY MonitoringConstants
  <1> QED BY <1>1 DEF MonitorServers

(* A request that leaves the page without being the latest one changes      *)
(* nothing that stands on it.                                               *)
LEMMA OldAnswer ==
    ASSUME MonitorInv, NEW r \in monitor.reads, ~r.latest, UNCHANGED telemetry,
           monitor' = [monitor EXCEPT !.reads = @ \ {r}]
    PROVE  MonitorInv'
  <1>1. monitor' \in MonitorRecords
    BY DEF MonitorInv, MonitorType, MonitorRecords
  <1>2. /\ monitor'.reads = monitor.reads \ {r}
        /\ monitor'.component = monitor.component /\ monitor'.range = monitor.range
        /\ monitor'.loading = monitor.loading /\ monitor'.error = monitor.error
        /\ monitor'.response = monitor.response /\ monitor'.statuses = monitor.statuses
    BY DEF MonitorInv, MonitorType, MonitorRecords
  <1>3. MonitorType'
    BY <1>1 DEF MonitorInv, MonitorType
  <1>4. AsksForChoice' /\ AnswersItsQuestion'
    BY <1>2 DEF MonitorInv, AsksForChoice, AnswersItsQuestion
  <1>5. ResponseFits' /\ MonitorWaits'
    BY <1>2 DEF MonitorInv, ResponseFits, MonitorWaits
  <1> QED BY <1>3, <1>4, <1>5 DEF MonitorInv

LEMMA MonitorServed ==
    ASSUME MonitorInv, NEW r \in monitor.reads, ServeTelemetry(r)
    PROVE  MonitorInv'
  <1> DEFINE body == [component |-> r.component, range |-> r.range,
                      status |-> telemetry[r.component].status,
                      last |-> telemetry[r.component].last]
             served == [r EXCEPT !.phase = "served", !.body = body]
  <1>1. r \in MonitorRequests /\ monitor \in MonitorRecords
    BY DEF MonitorInv, MonitorType, MonitorRecords
  <1>2. telemetry[r.component] \in SignalStates
    BY <1>1 DEF MonitorInv, MonitorType, MonitorRequests
  <1>3. body \in Responses /\ body.status # "none"
    BY <1>1, <1>2, MonitoringConstants DEF Responses, MonitorRequests
  <1>4. served \in MonitorRequests
    <2> HIDE DEF body
    <2> QED BY <1>1, <1>3 DEF MonitorRequests
  <1>5. /\ served.latest = r.latest /\ served.component = r.component /\ served.range = r.range
        /\ served.body = body
    BY <1>1 DEF MonitorRequests
  <1>6. body.component = r.component /\ body.range = r.range
    OBVIOUS
  <1>7. monitor' = [monitor EXCEPT !.reads = (@ \ {r}) \cup {served}] /\ telemetry' = telemetry
    BY DEF ServeTelemetry
  <1> HIDE DEF body, served
  <1>8. /\ monitor' \in MonitorRecords
        /\ monitor'.reads = (monitor.reads \ {r}) \cup {served}
        /\ monitor'.component = monitor.component /\ monitor'.range = monitor.range
        /\ monitor'.loading = monitor.loading /\ monitor'.error = monitor.error
        /\ monitor'.response = monitor.response /\ monitor'.statuses = monitor.statuses
    BY <1>1, <1>4, <1>7 DEF MonitorRecords
  <1>9. MonitorType'
    BY <1>7, <1>8 DEF MonitorInv, MonitorType
  <1>10. AsksForChoice' /\ AnswersItsQuestion'
    BY <1>3, <1>5, <1>6, <1>8 DEF MonitorInv, AsksForChoice, AnswersItsQuestion
  <1>11. ResponseFits' /\ MonitorWaits'
    BY <1>5, <1>8 DEF MonitorInv, ResponseFits, MonitorWaits
  <1> QED BY <1>9, <1>10, <1>11 DEF MonitorInv

LEMMA MonitorAnswered ==
    ASSUME MonitorInv, NEW r \in monitor.reads, TelemetryAnswered(r)
    PROVE  MonitorInv'
  <1>1. CASE ~r.latest
    BY <1>1, OldAnswer DEF TelemetryAnswered, CurrentRequest
  <1>2. CASE r.latest
    <2> DEFINE kept == [monitor EXCEPT !.reads = @ \ {r}]
    <2>1. /\ monitor \in MonitorRecords /\ r \in MonitorRequests
          /\ telemetry' = telemetry /\ r.phase = "served"
      BY DEF MonitorInv, MonitorType, MonitorRecords, TelemetryAnswered
    <2>2. r.body \in Responses /\ r.component \in Monitored /\ r.range \in TimeRanges
      BY <2>1 DEF MonitorRequests
    <2>3. r.body.status \in {"up", "degraded", "no_data", "none"}
      BY <2>2 DEF Responses
    <2>4. kept \in MonitorRecords /\ kept.reads = monitor.reads \ {r}
          /\ kept.component = monitor.component /\ kept.range = monitor.range
          /\ kept.error = monitor.error
      BY <2>1 DEF MonitorRecords
    <2>5. monitor' = [kept EXCEPT !.response = r.body, !.loading = FALSE,
                                  !.statuses[r.component] = r.body.status]
      BY <1>2 DEF TelemetryAnswered, CurrentRequest
    <2> HIDE DEF kept
    <2>6. /\ monitor'.reads = kept.reads /\ monitor'.component = kept.component
          /\ monitor'.range = kept.range /\ monitor'.response = r.body /\ ~monitor'.loading
          /\ monitor'.statuses = [kept.statuses EXCEPT ![r.component] = r.body.status]
      BY <2>4, <2>5 DEF MonitorRecords
    <2>7. monitor' \in MonitorRecords
      BY <2>2, <2>3, <2>4, <2>5 DEF MonitorRecords
    <2>8. monitor'.statuses[r.component] = r.body.status
      BY <2>2, <2>4, <2>6 DEF MonitorRecords
    <2>9. /\ r.component = monitor.component /\ r.range = monitor.range
          /\ r.body.component = r.component /\ r.body.range = r.range /\ r.body.status # "none"
      BY <1>2, <2>1 DEF MonitorInv, AsksForChoice, AnswersItsQuestion
    <2>10. MonitorType'
      BY <2>1, <2>7 DEF MonitorInv, MonitorType
    <2>11. AsksForChoice' /\ AnswersItsQuestion'
      BY <2>4, <2>6 DEF MonitorInv, AsksForChoice, AnswersItsQuestion
    <2>12. ResponseFits' /\ MonitorWaits'
      BY <2>4, <2>6, <2>8, <2>9 DEF ResponseFits, MonitorWaits
    <2> QED BY <2>10, <2>11, <2>12 DEF MonitorInv
  <1> QED BY <1>1, <1>2

LEMMA MonitorFailed ==
    ASSUME MonitorInv, NEW r \in monitor.reads, TelemetryFailed(r)
    PROVE  MonitorInv'
  <1>1. CASE ~r.latest
    BY <1>1, OldAnswer DEF TelemetryFailed, CurrentRequest
  <1>2. CASE r.latest
    <2>1. monitor \in MonitorRecords /\ telemetry' = telemetry
      BY DEF MonitorInv, MonitorType, TelemetryFailed
    <2>2. monitor' = [[monitor EXCEPT !.reads = @ \ {r}] EXCEPT !.error = TRUE, !.loading = FALSE]
      BY <1>2 DEF TelemetryFailed, CurrentRequest
    <2>3. /\ monitor' \in MonitorRecords
          /\ monitor'.reads = monitor.reads \ {r}
          /\ monitor'.component = monitor.component /\ monitor'.range = monitor.range
          /\ ~monitor'.loading /\ monitor'.error
      BY <2>1, <2>2 DEF MonitorRecords
    <2>4. MonitorType' /\ AsksForChoice' /\ AnswersItsQuestion'
      BY <2>1, <2>3 DEF MonitorInv, MonitorType, AsksForChoice, AnswersItsQuestion
    <2>5. ResponseFits' /\ MonitorWaits'
      BY <2>3 DEF ResponseFits, MonitorWaits
    <2> QED BY <2>4, <2>5 DEF MonitorInv
  <1> QED BY <1>1, <1>2

LEMMA MonitorStep ==
    ASSUME MonitorInv, MonitorNext
    PROVE  MonitorInv'
  <1>1. ASSUME NEW p \in MonitorRecords, p.reads = monitor.reads, Queries(LoadTelemetry(p))
        PROVE  MonitorInv'
    <2>1. monitor' = LoadTelemetry(p) /\ telemetry' = telemetry
      BY <1>1 DEF Queries
    <2>2. telemetry' \in [Monitored -> SignalStates]
      BY <2>1 DEF MonitorInv, MonitorType
    <2>3. \A r \in p.reads : r.phase = "served" =>
              /\ r.body.component = r.component /\ r.body.range = r.range
              /\ r.body.status # "none"
      BY <1>1 DEF MonitorInv, AnswersItsQuestion
    <2> QED BY <2>1, <2>2, <2>3, AskedAnew
  <1>2. monitor \in MonitorRecords
    BY DEF MonitorInv, MonitorType
  <1>3. ASSUME NEW r \in monitor.reads,
               ServeTelemetry(r) \/ TelemetryAnswered(r) \/ TelemetryFailed(r)
        PROVE  MonitorInv'
    BY <1>3, MonitorServed, MonitorAnswered, MonitorFailed
  <1>4. ASSUME NEW c \in Monitored, NEW s \in SignalStates, SignalsChange(c, s) PROVE MonitorInv'
    <2>1. monitor' = monitor /\ telemetry' \in [Monitored -> SignalStates]
      BY <1>4 DEF SignalsChange, MonitorInv, MonitorType
    <2> QED BY <2>1 DEF MonitorInv, MonitorType, AsksForChoice, AnswersItsQuestion, ResponseFits,
                        MonitorWaits
  <1>5. ASSUME NEW c \in Monitored, SelectComponent(c) PROVE MonitorInv'
    <2>1. /\ [monitor EXCEPT !.component = c] \in MonitorRecords
          /\ [monitor EXCEPT !.component = c].reads = monitor.reads
      BY <1>2 DEF MonitorRecords
    <2> QED BY <1>1, <1>5, <2>1 DEF SelectComponent
  <1>6. ASSUME NEW r \in TimeRanges, SelectRange(r) PROVE MonitorInv'
    <2>1. /\ [monitor EXCEPT !.range = r] \in MonitorRecords
          /\ [monitor EXCEPT !.range = r].reads = monitor.reads
      BY <1>2 DEF MonitorRecords
    <2> QED BY <1>1, <1>6, <2>1 DEF SelectRange
  <1>7. ASSUME NEW a \in AutoRefresh, SetAutoRefresh(a) PROVE MonitorInv'
    <2>1. monitor' = [monitor EXCEPT !.auto = a] /\ telemetry' = telemetry
      BY <1>7 DEF SetAutoRefresh
    <2>2. /\ monitor' \in MonitorRecords
          /\ monitor'.reads = monitor.reads
          /\ monitor'.component = monitor.component /\ monitor'.range = monitor.range
          /\ monitor'.loading = monitor.loading /\ monitor'.error = monitor.error
          /\ monitor'.response = monitor.response /\ monitor'.statuses = monitor.statuses
      BY <1>2, <2>1 DEF MonitorRecords
    <2> QED BY <2>1, <2>2 DEF MonitorInv, MonitorType, AsksForChoice, AnswersItsQuestion,
                              ResponseFits, MonitorWaits
  <1>8. ASSUME RefreshTelemetry \/ RetryQuery \/ RefreshTick PROVE MonitorInv'
    BY <1>1, <1>2, <1>8 DEF RefreshTelemetry, RetryQuery, RefreshTick
  <1> QED BY <1>3, <1>4, <1>5, <1>6, <1>7, <1>8 DEF MonitorNext

LEMMA MonitorAlways == Spec => []MonitorInv
  <1> USE DEF MonitorInv, MonitorType, AsksForChoice, AnswersItsQuestion, ResponseFits, MonitorWaits
  <1>1. Init => MonitorInv
    <2> SUFFICES ASSUME Init PROVE MonitorInv
      OBVIOUS
    <2>1. monitor = MountedMonitor(CHOOSE c \in Monitored : TRUE) /\ telemetry \in MonitorServers(FALSE)
      BY DEF Init
    <2> QED BY <2>1, MonitorMounted, MonitorServersTyped
  <1>2. MonitorInv /\ [Next]_vars => MonitorInv'
    <2> SUFFICES ASSUME MonitorInv, [Next]_vars PROVE MonitorInv'
      OBVIOUS
    <2>1. CASE UNCHANGED monitorVars
      BY <2>1 DEF monitorVars
    <2>2. CASE /\ monitor' = MountedMonitor(CHOOSE c \in Monitored : TRUE)
               /\ \E open \in BOOLEAN : telemetry' \in MonitorServers(open)
      <3>1. telemetry' \in [Monitored -> SignalStates]
        BY <2>2, MonitorServersTyped
      <3>2. /\ monitor' \in MonitorRecords /\ monitor'.loading
            /\ \E r \in monitor'.reads : r.latest
            /\ \A r \in monitor'.reads : /\ r.phase = "sent"
                                        /\ r.component = monitor'.component
                                        /\ r.range = monitor'.range
        BY ONLY <2>2, MonitorMounted
      <3> QED BY ONLY <3>1, <3>2
    <2>3. CASE MonitorNext
      <3> HIDE DEF MonitorInv
      <3> QED BY <2>3, MonitorStep
    <2> QED BY <2>1, <2>2, <2>3, MonitorMoves
  <1> QED BY <1>1, <1>2, PTL DEF Spec

(* What the monitoring page shows is what its header names: the numbering of *)
(* the requests keeps every older answer out (page.tsx, requestSequence).    *)
THEOREM TelemetryFitsChoice == Spec => []TelemetryOfChoice
  <1>1. MonitorInv => TelemetryOfChoice
    BY DEF MonitorInv, ResponseFits, TelemetryOfChoice, TelemetryGrid, StatusDot
  <1> QED BY <1>1, MonitorAlways, PTL

-----------------------------------------------------------------------------
(* The object inspector: which view is open depends on the object and its    *)
(* HDU only, and both change together with the view.                         *)
PreviewReads == [key : InspectedKeys \ {""}, page : Nat, search : BOOLEAN]
Previews ==
    [key : InspectedKeys, format : STRING \cup {"none"}, page : Nat, search : BOOLEAN, matched : Nat]
InspectorRecords ==
    [key : InspectedKeys, data : Previews, loading : BOOLEAN, error : BOOLEAN, page : Nat,
     search : BOOLEAN, hdu : Nat, view : {"table", "cards"}, reads : SUBSET PreviewReads]
InspectorInv == inspector \in InspectorRecords /\ TableViewHasTable

LEMMA InspectorMoves ==
    ASSUME [Next]_vars
    PROVE  \/ \E k \in InspectedKeys : inspector' = MountedInspector(k)
           \/ UNCHANGED inspector
           \/ InspectorNext
  <1>1. CASE Leave \/ \E p \in WorkPages : Open(p)
    <2>1. \E p : Mounts(p)
      BY <1>1 DEF Leave, Open
    <2> QED BY <2>1, InspectorConstants DEF Mounts
  <1>2. CASE InFactory \/ InObservatory \/ InStore \/ UNCHANGED vars
    BY <1>2 DEF InFactory, InObservatory, InStore, vars, storeVars
  <1> QED BY <1>1, <1>2 DEF Next

LEMMA SameTable ==
    ASSUME NEW p, NEW q, q.data = p.data, q.hdu = p.hdu, HasTable(p)
    PROVE  HasTable(q)
  <1>1. p.data # NoPreview
    <2> SUFFICES ASSUME p.data = NoPreview PROVE Section(p) # "fits"
      BY DEF HasTable
    <2>1. CASE p.loading
      BY <2>1 DEF Section
    <2>2. CASE ~p.loading
      BY <2>2 DEF Section
    <2> QED BY <2>1, <2>2
  <1>2. Section(q) = p.data.format /\ Section(p) = p.data.format
    BY <1>1 DEF Section
  <1> QED BY <1>2 DEF HasTable

LEMMA NoPreviewTyped == NoPreview \in Previews
  <1>1. "" \in InspectedKeys
    BY InspectorConstants
  <1> QED BY <1>1 DEF NoPreview, Previews

(* What asking for a preview leaves alone. *)
LEMMA Fetched ==
    ASSUME NEW p \in InspectorRecords, NEW n \in Nat
    PROVE  /\ FetchPreview(p, n) \in InspectorRecords
           /\ FetchPreview(p, n).data = p.data /\ FetchPreview(p, n).hdu = p.hdu
           /\ FetchPreview(p, n).view = p.view
  <1>1. CASE p.key = ""
    BY <1>1 DEF FetchPreview
  <1>2. CASE p.key # ""
    <2> DEFINE read == [key |-> p.key, page |-> n, search |-> p.search]
    <2>1. read \in PreviewReads
      BY <1>2 DEF InspectorRecords, PreviewReads
    <2>2. FetchPreview(p, n) = [p EXCEPT !.loading = TRUE, !.error = FALSE, !.reads = @ \cup {read}]
      BY <1>2 DEF FetchPreview
    <2> HIDE DEF read
    <2>3. p.reads \cup {read} \in SUBSET PreviewReads
      BY <2>1 DEF InspectorRecords
    <2>4. FetchPreview(p, n) \in InspectorRecords
      BY <2>2, <2>3 DEF InspectorRecords
    <2> QED BY <2>2, <2>4 DEF InspectorRecords
  <1> QED BY <1>1, <1>2

LEMMA KeyEffectKeeps ==
    ASSUME NEW p \in InspectorRecords, p.view = "table" => HasTable(p)
    PROVE  /\ KeyEffect(p) \in InspectorRecords
           /\ KeyEffect(p).view = "table" => HasTable(KeyEffect(p))
  <1>1. CASE p.key = ""
    <2>1. KeyEffect(p) = [p EXCEPT !.data = NoPreview, !.error = FALSE, !.hdu = 1, !.view = "cards"]
      BY <1>1 DEF KeyEffect
    <2>2. KeyEffect(p) \in InspectorRecords
      <3>1. ASSUME NEW d \in Previews
            PROVE  [p EXCEPT !.data = d, !.error = FALSE, !.hdu = 1, !.view = "cards"]
                       \in InspectorRecords
        BY DEF InspectorRecords
      <3> QED BY <2>1, <3>1, NoPreviewTyped
    <2>3. KeyEffect(p).view = "cards"
      BY <2>1 DEF InspectorRecords
    <2> QED BY <2>2, <2>3
  <1>2. CASE p.key # ""
    <2> DEFINE q == [p EXCEPT !.page = 0, !.search = FALSE]
    <2>1. /\ q \in InspectorRecords /\ q.data = p.data /\ q.hdu = p.hdu /\ q.view = p.view
      BY DEF InspectorRecords
    <2>2. KeyEffect(p) = FetchPreview(q, 0)
      BY <1>2 DEF KeyEffect
    <2> HIDE DEF q
    <2>3. /\ FetchPreview(q, 0) \in InspectorRecords
          /\ FetchPreview(q, 0).data = p.data /\ FetchPreview(q, 0).hdu = p.hdu
          /\ FetchPreview(q, 0).view = p.view
      BY <2>1, Fetched
    <2> QED BY <2>2, <2>3, SameTable
  <1> QED BY <1>1, <1>2

LEMMA InspectorMounted ==
    ASSUME NEW k \in InspectedKeys
    PROVE  /\ MountedInspector(k) \in InspectorRecords
           /\ MountedInspector(k).view = "table" => HasTable(MountedInspector(k))
  <1> DEFINE p == [key |-> k, data |-> NoPreview, loading |-> FALSE, error |-> FALSE,
                   page |-> 0, search |-> FALSE, hdu |-> 1, view |-> "cards", reads |-> {}]
  <1>1. p \in InspectorRecords /\ p.view = "cards"
    BY NoPreviewTyped DEF InspectorRecords
  <1>2. MountedInspector(k) = KeyEffect(p)
    BY DEF MountedInspector
  <1> HIDE DEF p
  <1> QED BY <1>1, <1>2, KeyEffectKeeps

(* Opening an HDU sets the view that fits it. *)
LEMMA Opened ==
    ASSUME NEW p \in InspectorRecords
    PROVE  /\ OpenHdu(p) \in InspectorRecords
           /\ OpenHdu(p).view = "table" => HasTable(OpenHdu(p))
  <1>1. /\ OpenHdu(p) \in InspectorRecords
        /\ OpenHdu(p).data = p.data /\ OpenHdu(p).hdu = p.hdu
        /\ OpenHdu(p).view = IF HasTable(p) THEN "table" ELSE "cards"
    BY DEF OpenHdu, InspectorRecords
  <1>2. CASE HasTable(p)
    BY <1>1, <1>2, SameTable
  <1>3. CASE ~HasTable(p)
    BY <1>1, <1>3
  <1> QED BY <1>2, <1>3

LEMMA InspectorStep ==
    ASSUME InspectorInv, InspectorNext
    PROVE  InspectorInv'
  <1> USE DEF InspectorInv, TableViewHasTable
  <1>1. inspector \in InspectorRecords
    OBVIOUS
  <1>2. ASSUME NEW p \in InspectorRecords, NEW n \in Nat,
               p.data = inspector.data, p.hdu = inspector.hdu, p.view = inspector.view,
               Fetches(FetchPreview(p, n))
        PROVE  InspectorInv'
    <2>1. inspector' = FetchPreview(p, n)
      BY <1>2 DEF Fetches
    <2>2. /\ inspector' \in InspectorRecords /\ inspector'.data = inspector.data
          /\ inspector'.hdu = inspector.hdu /\ inspector'.view = inspector.view
      BY <1>2, <2>1, Fetched
    <2> QED BY <2>2, SameTable
  <1>3. ASSUME NEW r \in inspector.reads, PreviewAnswered(r) PROVE InspectorInv'
    <2> DEFINE data == [key |-> r.key, format |-> FormatOf[r.key], page |-> r.page,
                        search |-> r.search, matched |-> MatchedRows[r.search]]
               hdu == IF inspector.data.format = "fits" THEN inspector.hdu ELSE 1
               p == [inspector EXCEPT !.reads = @ \ {r}, !.loading = FALSE, !.data = data, !.hdu = hdu]
    <2>1. r \in PreviewReads
      BY <1>1 DEF InspectorRecords
    <2>2. data \in Previews
      BY <2>1, InspectorConstants DEF PreviewReads, Previews
    <2>3. hdu \in Nat
      BY <1>1 DEF InspectorRecords
    <2>4. inspector' = OpenHdu(p)
      BY <1>3 DEF PreviewAnswered
    <2> HIDE DEF data, hdu
    <2>5. p \in InspectorRecords
      BY <1>1, <2>2, <2>3 DEF InspectorRecords
    <2> HIDE DEF p
    <2> QED BY <2>4, <2>5, Opened
  <1>4. ASSUME NEW r \in inspector.reads, PreviewFailed(r) PROVE InspectorInv'
    <2>1. /\ inspector' \in InspectorRecords /\ inspector'.data = inspector.data
          /\ inspector'.hdu = inspector.hdu /\ inspector'.view = inspector.view
      BY <1>1, <1>4 DEF PreviewFailed, InspectorRecords
    <2> QED BY <2>1, SameTable
  <1>5. ASSUME NEW k \in InspectedKeys, InspectKey(k) PROVE InspectorInv'
    <2> DEFINE p == [inspector EXCEPT !.key = k]
    <2>1. /\ p \in InspectorRecords /\ p.data = inspector.data /\ p.hdu = inspector.hdu
          /\ p.view = inspector.view
      BY <1>1 DEF InspectorRecords
    <2>2. inspector' = KeyEffect(p)
      BY <1>5 DEF InspectKey, Fetches
    <2> HIDE DEF p
    <2>3. p.view = "table" => HasTable(p)
      BY <2>1, SameTable
    <2> QED BY <2>1, <2>2, <2>3, KeyEffectKeeps
  <1>6. ASSUME NEW s \in BOOLEAN, TypeRowSearch(s) PROVE InspectorInv'
    <2>1. /\ inspector' \in InspectorRecords /\ inspector'.data = inspector.data
          /\ inspector'.hdu = inspector.hdu /\ inspector'.view = inspector.view
      BY <1>1, <1>6 DEF TypeRowSearch, InspectorRecords
    <2> QED BY <2>1, SameTable
  <1>7. ASSUME RefreshPreview PROVE InspectorInv'
    <2>1. inspector.page \in Nat
      BY <1>1 DEF InspectorRecords
    <2> QED BY <1>1, <1>2, <1>7, <2>1 DEF RefreshPreview
  <1>8. ASSUME NEW n \in Nat, Fetches(FetchPreview([inspector EXCEPT !.page = n], n))
        PROVE  InspectorInv'
    <2> DEFINE p == [inspector EXCEPT !.page = n]
    <2>1. /\ p \in InspectorRecords /\ p.data = inspector.data /\ p.hdu = inspector.hdu
          /\ p.view = inspector.view
      BY <1>1 DEF InspectorRecords
    <2>2. Fetches(FetchPreview(p, n))
      BY <1>8
    <2> HIDE DEF p
    <2> QED BY <1>2, <2>1, <2>2
  <1>9. ASSUME SubmitRowSearch \/ \E n \in 0 .. MatchedRows[FALSE] : RowPage(n) PROVE InspectorInv'
    <2>1. CASE SubmitRowSearch
      BY <1>8, <2>1 DEF SubmitRowSearch
    <2>2. ASSUME NEW n \in 0 .. MatchedRows[FALSE], RowPage(n) PROVE InspectorInv'
      <3>1. n \in Nat
        OBVIOUS
      <3>2. Fetches(FetchPreview([inspector EXCEPT !.page = n], n))
        BY <2>2 DEF RowPage
      <3> QED BY <1>8, <3>1, <3>2
    <2> QED BY <1>9, <2>1, <2>2
  <1>10. ASSUME NEW i \in 1 .. 2, SelectHdu(i) PROVE InspectorInv'
    <2>1. [inspector EXCEPT !.hdu = i] \in InspectorRecords
      BY <1>1 DEF InspectorRecords
    <2>2. inspector' = OpenHdu([inspector EXCEPT !.hdu = i])
      BY <1>10 DEF SelectHdu
    <2> QED BY <2>1, <2>2, Opened
  <1>11. ASSUME NEW v \in {"table", "cards"}, SwitchView(v) PROVE InspectorInv'
    <2>1. /\ inspector' \in InspectorRecords /\ inspector'.data = inspector.data
          /\ inspector'.hdu = inspector.hdu /\ inspector'.view = v
      BY <1>1, <1>11 DEF SwitchView, InspectorRecords
    <2>2. v = "table" => HasTable(inspector)
      BY <1>11 DEF SwitchView, HduViews
    <2> QED BY <2>1, <2>2, SameTable
  <1> QED BY <1>3, <1>4, <1>5, <1>6, <1>7, <1>9, <1>10, <1>11 DEF InspectorNext

(* The table of a FITS object is open only on an HDU that has one, whatever  *)
(* preview arrives last (FitsSection).                                       *)
THEOREM OpenTableExists == Spec => []TableViewHasTable
  <1> USE DEF InspectorInv, TableViewHasTable
  <1>1. Init => InspectorInv
    <2> SUFFICES ASSUME Init PROVE InspectorInv
      OBVIOUS
    <2>1. inspector = MountedInspector("")
      BY DEF Init
    <2> QED BY <2>1, InspectorMounted, InspectorConstants
  <1>2. InspectorInv /\ [Next]_vars => InspectorInv'
    <2> SUFFICES ASSUME InspectorInv, [Next]_vars PROVE InspectorInv'
      OBVIOUS
    <2>1. CASE UNCHANGED inspector
      BY <2>1
    <2>2. ASSUME NEW k \in InspectedKeys, inspector' = MountedInspector(k) PROVE InspectorInv'
      BY <2>2, InspectorMounted
    <2>3. CASE InspectorNext
      <3> HIDE DEF InspectorInv
      <3> QED BY <2>3, InspectorStep
    <2> QED BY <2>1, <2>2, <2>3, InspectorMoves
  <1>3. InspectorInv => TableViewHasTable
    OBVIOUS
  <1> QED BY <1>1, <1>2, <1>3, PTL DEF Spec

-----------------------------------------------------------------------------
(* The training lab: an audit that is known and not being repeated is one of *)
(* the selection, no audit is asked for without a selection, and none is     *)
(* kept once the selection is empty.                                         *)
Marks ==
    {"none", "queued", "running", "completed", "failed", "cancelled"} \cup
    {RunPhases[i] : i \in DOMAIN RunPhases}
ServedRuns == [status : Marks, phase : Marks]
Followed == [run : TrainingRuns \cup {"none"}, status : Marks, phase : Marks]
AuditRecords == [of : SUBSET GoldSets, ready : BOOLEAN, known : BOOLEAN]
LabRecords ==
    [listed : SUBSET GoldSets, listing : BOOLEAN, selected : SUBSET GoldSets,
     readiness : AuditRecords, auditing : BOOLEAN, audits : SUBSET (SUBSET GoldSets),
     submitting : {"no", "sent"}, active : Followed, config : BOOLEAN,
     rehydrate : {"sent", "served", "done"}, found : Followed,
     control : {"none", "cancel", "checkpoint"}, connected : BOOLEAN, stream : Seq(Followed)]

LabType == lab \in LabRecords /\ trainer \in [TrainingRuns -> ServedRuns]
AuditFits(p) ==
    /\ {} \notin p.audits
    /\ p.readiness.known /\ ~p.auditing => p.readiness.of = p.selected
    /\ p.selected = {} => ~p.readiness.known
LabInv == LabType /\ AuditFits(lab)

SameAudit(p, q) ==
    /\ q.selected = p.selected /\ q.readiness = p.readiness
    /\ q.auditing = p.auditing /\ q.audits = p.audits

LEMMA LabMoves ==
    ASSUME [Next]_vars
    PROVE  \/ lab' = MountedLab /\ \E open \in BOOLEAN : trainer' \in TrainServers(open)
           \/ UNCHANGED trainVars
           \/ LabNext
  <1>1. CASE Leave \/ \E p \in WorkPages : Open(p)
    <2>1. \E p : Mounts(p)
      BY <1>1 DEF Leave, Open
    <2> QED BY <2>1 DEF Mounts
  <1>2. CASE InFactory \/ InObservatory \/ InStore \/ UNCHANGED vars
    BY <1>2 DEF InFactory, InObservatory, InStore, vars, factoryVars, trainVars
  <1> QED BY <1>1, <1>2 DEF Next

LEMMA FirstPhase == RunPhases[1] \in Marks
  <1>1. 1 \in DOMAIN RunPhases
    BY TrainingConstants
  <1> QED BY <1>1 DEF Marks

LEMMA LabMounted ==
    /\ MountedLab \in LabRecords /\ AuditFits(MountedLab)
    /\ \A open \in BOOLEAN : TrainServers(open) \subseteq [TrainingRuns -> ServedRuns]
  <1>1. NoTraining \in Followed /\ NoAudit \in AuditRecords
    BY DEF NoTraining, Followed, NoAudit, AuditRecords, Marks
  <1>2. <<>> \in Seq(Followed)
    OBVIOUS
  <1>3. MountedLab \in LabRecords
    BY <1>1, <1>2 DEF MountedLab, LabRecords
  <1>4. AuditFits(MountedLab)
    BY DEF AuditFits, MountedLab, NoAudit
  <1>5. Run("none", "none") \in ServedRuns /\ Run("running", RunPhases[1]) \in ServedRuns
    BY FirstPhase DEF Run, ServedRuns, Marks
  <1>6. ASSUME NEW open \in BOOLEAN, NEW t \in TrainServers(open)
        PROVE  t \in [TrainingRuns -> ServedRuns]
    BY <1>5 DEF TrainServers
  <1> QED BY <1>3, <1>4, <1>6

(* A step that leaves selection and audit alone. *)
LEMMA QuietStep ==
    ASSUME LabInv, lab' \in LabRecords, trainer' \in [TrainingRuns -> ServedRuns],
           SameAudit(lab, lab')
    PROVE  LabInv'
  BY DEF LabInv, LabType, AuditFits, SameAudit

LEMMA Tracked ==
    ASSUME NEW p \in LabRecords, NEW run \in Followed
    PROVE  /\ Tracking(p, run) \in LabRecords /\ SameAudit(p, Tracking(p, run))
           /\ Tracking(p, run).listing = p.listing
  <1>1. CASE run = p.active
    BY <1>1 DEF Tracking, SameAudit
  <1>2. CASE run # p.active
    <2> DEFINE shows == IF run.status \in UnderWay /\ run.status # p.active.status
                        THEN FALSE ELSE p.config
    <2>1. shows \in BOOLEAN
      BY DEF LabRecords
    <2>2. Tracking(p, run) = [p EXCEPT !.active = run, !.connected = FALSE, !.stream = <<>>,
                                       !.config = shows]
      BY <1>2 DEF Tracking
    <2>3. <<>> \in Seq(Followed)
      OBVIOUS
    <2> HIDE DEF shows
    <2>4. Tracking(p, run) \in LabRecords
      BY <2>1, <2>2, <2>3, ZenonT(40) DEF LabRecords
    <2> QED BY <2>2, <2>4 DEF LabRecords, SameAudit
  <1> QED BY <1>1, <1>2

LEMMA SnapshotsSelected ==
    ASSUME LabInv, NEW S \in SUBSET GoldSets, SelectSnapshots(S)
    PROVE  LabInv'
  <1>1. lab \in LabRecords /\ trainer' = trainer /\ NoAudit \in AuditRecords
    BY DEF LabInv, LabType, SelectSnapshots, NoAudit, AuditRecords
  <1>2. CASE S = {}
    <2>1. lab' = [lab EXCEPT !.selected = S, !.readiness = NoAudit, !.auditing = FALSE]
      BY <1>2 DEF SelectSnapshots
    <2>2. /\ lab' \in LabRecords /\ lab'.audits = lab.audits /\ lab'.readiness = NoAudit
      BY <1>1, <2>1 DEF LabRecords
    <2> QED BY <1>1, <2>2 DEF LabInv, LabType, AuditFits, NoAudit
  <1>3. CASE S # {}
    <2>1. lab' = [lab EXCEPT !.selected = S, !.auditing = TRUE, !.audits = @ \cup {S}]
      BY <1>3 DEF SelectSnapshots
    <2>2. /\ lab' \in LabRecords /\ lab'.audits = lab.audits \cup {S}
          /\ lab'.selected = S /\ lab'.auditing
      BY <1>1, <2>1 DEF LabRecords
    <2> QED BY <1>1, <1>3, <2>2 DEF LabInv, LabType, AuditFits
  <1> QED BY <1>2, <1>3

LEMMA AuditAnswered ==
    ASSUME LabInv, NEW S \in lab.audits, ReadinessAnswered(S)
    PROVE  LabInv'
  <1>1. lab \in LabRecords /\ trainer' = trainer /\ S # {} /\ S \in SUBSET GoldSets
    BY DEF LabInv, LabType, LabRecords, AuditFits, ReadinessAnswered
  <1>2. PICK answer \in {[of |-> S, ready |-> S \in ReadyCohorts, known |-> TRUE], NoAudit} :
            lab' = [lab EXCEPT !.audits = @ \ {S},
                               !.readiness = IF CurrentAudit(S) THEN answer ELSE @,
                               !.auditing = IF CurrentAudit(S) THEN FALSE ELSE @]
    BY DEF ReadinessAnswered
  <1>3. /\ answer \in AuditRecords
        /\ answer.known => answer.of = S
    <2>1. (S \in ReadyCohorts) \in BOOLEAN
      OBVIOUS
    <2>2. ASSUME NEW b \in BOOLEAN PROVE [of |-> S, ready |-> b, known |-> TRUE] \in AuditRecords
      BY <1>1 DEF AuditRecords
    <2>3. NoAudit \in AuditRecords /\ ~NoAudit.known
      BY DEF NoAudit, AuditRecords
    <2>4. CASE answer = NoAudit
      BY <2>3, <2>4
    <2>5. CASE answer = [of |-> S, ready |-> S \in ReadyCohorts, known |-> TRUE]
      <3>1. answer \in AuditRecords
        BY <2>1, <2>2, <2>5
      <3>2. answer.of = S
        BY <2>5
      <3> QED BY <3>1, <3>2
    <2> QED BY <2>4, <2>5
  <1>4. CASE S = lab.selected
    <2>1. lab' = [lab EXCEPT !.audits = @ \ {S}, !.readiness = answer, !.auditing = FALSE]
      BY <1>2, <1>4 DEF CurrentAudit
    <2>2. /\ lab' \in LabRecords /\ lab'.audits = lab.audits \ {S}
          /\ lab'.selected = S /\ lab'.readiness = answer
      BY <1>1, <1>3, <1>4, <2>1 DEF LabRecords
    <2> QED BY <1>1, <1>3, <2>2 DEF LabInv, LabType, AuditFits
  <1>5. CASE S # lab.selected
    <2>1. lab' = [lab EXCEPT !.audits = @ \ {S}, !.readiness = lab.readiness,
                             !.auditing = lab.auditing]
      BY <1>2, <1>5 DEF CurrentAudit
    <2>2. /\ lab' \in LabRecords /\ lab'.audits = lab.audits \ {S}
          /\ lab'.selected = lab.selected /\ lab'.readiness = lab.readiness
          /\ lab'.auditing = lab.auditing
      BY <1>1, <2>1 DEF LabRecords
    <2> QED BY <1>1, <2>2 DEF LabInv, LabType, AuditFits
  <1> QED BY <1>4, <1>5

(* The worker moves: only its run and the stream change. *)
LEMMA TrainerMoved ==
    ASSUME LabInv, NEW run \in TrainingRuns, TrainerMoves(run)
    PROVE  LabInv'
  <1>1. lab \in LabRecords /\ trainer \in [TrainingRuns -> ServedRuns]
    BY DEF LabInv, LabType
  <1>2. \E next \in ServedRuns :
          /\ trainer' = [trainer EXCEPT ![run] = next]
          /\ lab' = [lab EXCEPT !.stream =
                         IF lab.connected
                         THEN Append(@, [run |-> run, status |-> next.status, phase |-> next.phase])
                         ELSE @]
    <2>1. \A o \in RunOutcomes : Run(o, o) \in ServedRuns
      BY TrainingConstants DEF Run, ServedRuns, Marks
    <2>2. \A i \in DOMAIN RunPhases : Run("running", RunPhases[i]) \in ServedRuns
      BY DEF Run, ServedRuns, Marks
    <2>3. /\ 1 \in DOMAIN RunPhases
          /\ \A i \in 1 .. Len(RunPhases) - 1 : i + 1 \in DOMAIN RunPhases
      BY TrainingConstants
    <2> DEFINE at == trainer[run]
               failing == {Run(o, o) : o \in RunOutcomes \ {"completed"}}
               passed == {j \in 1 .. Len(RunPhases) - 1 : RunPhases[j] = at.phase}
               further == failing \cup {Run("running", RunPhases[i + 1]) : i \in passed}
                          \cup (IF at.phase = RunPhases[Len(RunPhases)]
                                THEN {Run(o, o) : o \in RunOutcomes} ELSE {})
               to == CASE at.status = "queued"  -> {Run("running", RunPhases[1])} \cup failing
                       [] at.status = "running" -> further
                       [] OTHER                 -> {}
    <2>4. failing \subseteq ServedRuns
      BY <2>1
    <2>5. further \subseteq ServedRuns
      <3>1. {Run("running", RunPhases[i + 1]) : i \in passed} \subseteq ServedRuns
        BY <2>2, <2>3
      <3>2. {Run(o, o) : o \in RunOutcomes} \subseteq ServedRuns
        BY <2>1
      <3> HIDE DEF passed
      <3> QED BY <2>4, <3>1, <3>2
    <2>6. \E next \in to :
          /\ trainer' = [trainer EXCEPT ![run] = next]
          /\ lab' = [lab EXCEPT !.stream =
                         IF lab.connected
                         THEN Append(@, [run |-> run, status |-> next.status, phase |-> next.phase])
                         ELSE @]
      BY DEF TrainerMoves
    <2>7. Run("running", RunPhases[1]) \in ServedRuns
      BY <2>2, <2>3
    <2>8. to \subseteq ServedRuns
      <3> HIDE DEF failing, further, at
      <3>1. CASE at.status = "queued"
        BY <2>4, <2>7, <3>1
      <3>2. CASE at.status = "running"
        BY <2>5, <3>2
      <3>3. CASE at.status \notin {"queued", "running"}
        BY <3>3
      <3> QED BY <3>1, <3>2, <3>3
    <2> HIDE DEF to
    <2> QED BY <2>6, <2>8
  <1>3. PICK next \in ServedRuns :
          /\ trainer' = [trainer EXCEPT ![run] = next]
          /\ lab' = [lab EXCEPT !.stream =
                         IF lab.connected
                         THEN Append(@, [run |-> run, status |-> next.status, phase |-> next.phase])
                         ELSE @]
    BY <1>2
  <1>4. trainer' \in [TrainingRuns -> ServedRuns]
    BY <1>1, <1>3
  <1> DEFINE event == [run |-> run, status |-> next.status, phase |-> next.phase]
             stream == IF lab.connected THEN Append(lab.stream, event) ELSE lab.stream
  <1>5. event \in Followed
    BY DEF Followed, ServedRuns
  <1>6. stream \in Seq(Followed)
    <2> HIDE DEF event
    <2> QED BY <1>1, <1>5 DEF LabRecords
  <1>7. lab' = [lab EXCEPT !.stream = stream]
    BY <1>3
  <1> HIDE DEF event, stream
  <1>8. lab' \in LabRecords /\ SameAudit(lab, lab')
    BY <1>1, <1>6, <1>7 DEF LabRecords, SameAudit
  <1> QED BY <1>4, <1>8, QuietStep

LEMMA EventHandled ==
    ASSUME LabInv, WorkflowUpdate
    PROVE  LabInv'
  <1> DEFINE e == Head(lab.stream)
             p == [lab EXCEPT !.stream = Tail(@)]
             run == [p.active EXCEPT !.status = e.status, !.phase = e.phase]
             q == Tracking(p, run)
  <1>1. lab \in LabRecords /\ trainer' \in [TrainingRuns -> ServedRuns] /\ lab.stream # <<>>
    BY DEF LabInv, LabType, WorkflowUpdate
  <1>2. e \in Followed /\ Tail(lab.stream) \in Seq(Followed)
    BY <1>1 DEF LabRecords
  <1>3. p \in LabRecords /\ SameAudit(lab, p) /\ p.active \in Followed /\ p.listing \in BOOLEAN
    BY <1>1, <1>2 DEF LabRecords, SameAudit
  <1>4. run \in Followed
    <2> HIDE DEF e, p
    <2> QED BY <1>2, <1>3 DEF Followed
  <1>5. lab' = IF ~Concerns(p, e) THEN p
               ELSE [q EXCEPT !.listing = @ \/ e.status = "completed"]
    BY DEF WorkflowUpdate
  <1>6. q \in LabRecords /\ SameAudit(p, q) /\ q.listing = p.listing
    <2> HIDE DEF e, p, run
    <2> QED BY <1>3, <1>4, Tracked
  <1>7. (q.listing \/ e.status = "completed") \in BOOLEAN
    OBVIOUS
  <1> HIDE DEF e, p, run, q
  <1>8. CASE ~Concerns(p, e)
    BY <1>1, <1>3, <1>5, <1>8, QuietStep
  <1>9. CASE Concerns(p, e)
    <2> DEFINE listing == q.listing \/ e.status = "completed"
    <2>1. lab' = [q EXCEPT !.listing = listing] /\ listing \in BOOLEAN
      BY <1>5, <1>7, <1>9
    <2> HIDE DEF listing
    <2>2. lab' \in LabRecords /\ SameAudit(q, lab')
      BY <1>6, <2>1 DEF LabRecords, SameAudit
    <2>3. SameAudit(lab, lab')
      BY <1>3, <1>6, <2>2 DEF SameAudit
    <2> QED BY <1>1, <2>2, <2>3, QuietStep
  <1> QED BY <1>8, <1>9

(* The steps that follow a run of the server. *)
LEMMA RunFollowed ==
    ASSUME LabInv,
           ServeActive \/ Rehydrated \/ ControlAnswered
             \/ \E run \in TrainingRuns : TrainingAccepted(run)
    PROVE  LabInv'
  <1>1. lab \in LabRecords /\ trainer \in [TrainingRuns -> ServedRuns]
    BY DEF LabInv, LabType
  <1>2. NoTraining \in Followed
    BY DEF NoTraining, Followed, Marks
  <1>3. CASE ServeActive
    <2>1. PICK run \in TrainingRuns :
             lab' = [lab EXCEPT !.rehydrate = "served",
                                !.found = [run |-> run, status |-> trainer[run].status,
                                           phase |-> trainer[run].phase]]
      BY <1>3 DEF ServeActive
    <2>2. [run |-> run, status |-> trainer[run].status, phase |-> trainer[run].phase] \in Followed
      BY <1>1 DEF Followed, ServedRuns
    <2>3. ASSUME NEW f \in Followed,
                 lab' = [lab EXCEPT !.rehydrate = "served", !.found = f]
          PROVE  lab' \in LabRecords /\ SameAudit(lab, lab')
      BY <1>1, <2>3 DEF LabRecords, SameAudit
    <2>4. trainer' = trainer
      BY <1>3 DEF ServeActive
    <2> QED BY <1>1, <2>1, <2>2, <2>3, <2>4, QuietStep
  <1>4. CASE Rehydrated
    <2> DEFINE p == IF lab.active.run = lab.found.run THEN lab ELSE Tracking(lab, lab.found)
    <2>1. p \in LabRecords /\ SameAudit(lab, p)
      <3>1. lab.found \in Followed
        BY <1>1 DEF LabRecords
      <3>2. SameAudit(lab, lab)
        BY DEF SameAudit
      <3> QED BY <1>1, <3>1, <3>2, Tracked
    <2>2. lab' = [p EXCEPT !.rehydrate = "done", !.found = NoTraining] /\ trainer' = trainer
      BY <1>4 DEF Rehydrated
    <2> HIDE DEF p
    <2>3. lab' \in LabRecords /\ SameAudit(p, lab')
      BY <1>2, <2>1, <2>2 DEF LabRecords, SameAudit
    <2>4. SameAudit(lab, lab')
      BY <2>1, <2>3 DEF SameAudit
    <2> QED BY <1>1, <2>2, <2>3, <2>4, QuietStep
  <1>5. CASE ControlAnswered
    <2> DEFINE run == [lab.active EXCEPT !.status = "cancelled", !.phase = "cancelled"]
               p == IF lab.control = "cancel" /\ lab.active # NoTraining THEN Tracking(lab, run) ELSE lab
    <2>1. run \in Followed
      BY <1>1 DEF LabRecords, Followed, Marks
    <2>2. p \in LabRecords /\ SameAudit(lab, p)
      <3> HIDE DEF run
      <3>1. SameAudit(lab, lab)
        BY DEF SameAudit
      <3> QED BY <1>1, <2>1, <3>1, Tracked
    <2>3. lab' = [p EXCEPT !.control = "none"] /\ trainer' = trainer
      BY <1>5 DEF ControlAnswered
    <2> HIDE DEF run, p
    <2>4. lab' \in LabRecords /\ SameAudit(p, lab')
      BY <2>2, <2>3 DEF LabRecords, SameAudit
    <2>5. SameAudit(lab, lab')
      BY <2>2, <2>4 DEF SameAudit
    <2> QED BY <1>1, <2>3, <2>4, <2>5, QuietStep
  <1>6. ASSUME NEW run \in TrainingRuns, TrainingAccepted(run) PROVE LabInv'
    <2> DEFINE new == [run |-> run, status |-> "queued", phase |-> "queued"]
               p == Tracking(lab, new)
    <2>1. new \in Followed /\ Run("queued", "queued") \in ServedRuns
      BY DEF Followed, Run, ServedRuns, Marks
    <2>2. p \in LabRecords /\ SameAudit(lab, p)
      <3> HIDE DEF new
      <3> QED BY <1>1, <2>1, Tracked
    <2>3. /\ lab' = [p EXCEPT !.submitting = "no", !.config = FALSE]
          /\ trainer' = [trainer EXCEPT ![run] = Run("queued", "queued")]
      BY <1>6 DEF TrainingAccepted
    <2> HIDE DEF new, p
    <2>4. lab' \in LabRecords /\ SameAudit(p, lab')
      BY <2>2, <2>3 DEF LabRecords, SameAudit
    <2>5. SameAudit(lab, lab') /\ trainer' \in [TrainingRuns -> ServedRuns]
      BY <1>1, <2>1, <2>2, <2>3, <2>4 DEF SameAudit
    <2> QED BY <2>4, <2>5, QuietStep
  <1> QED BY <1>3, <1>4, <1>5, <1>6

LEMMA LabStep ==
    ASSUME LabInv, LabNext
    PROVE  LabInv'
  <1>1. lab \in LabRecords /\ trainer \in [TrainingRuns -> ServedRuns]
    BY DEF LabInv, LabType
  <1>2. ASSUME \/ StreamOpens \/ SnapshotsListed \/ TrainingRefused \/ ControlFailed
               \/ \E f \in Forms : StartTraining(f)
               \/ \E show \in BOOLEAN : ConfigureRun(show)
               \/ \E a \in {"cancel", "checkpoint"} : ControlTraining(a)
        PROVE  LabInv'
    <2>1. trainer' = trainer
      BY <1>2 DEF StreamOpens, SnapshotsListed, TrainingRefused, ControlFailed, StartTraining,
                  ConfigureRun, ControlTraining
    <2>2. \/ lab' = [lab EXCEPT !.connected = TRUE]
          \/ lab' = [lab EXCEPT !.listing = FALSE, !.listed = GoldSets]
          \/ \E v \in {"no", "sent"} : lab' = [lab EXCEPT !.submitting = v]
          \/ \E v \in {"none", "cancel", "checkpoint"} : lab' = [lab EXCEPT !.control = v]
          \/ \E v \in BOOLEAN : lab' = [lab EXCEPT !.config = v]
      BY <1>2 DEF StreamOpens, SnapshotsListed, TrainingRefused, ControlFailed, StartTraining,
                  ConfigureRun, ControlTraining
    <2>3. lab' \in LabRecords /\ SameAudit(lab, lab')
      <3>1. CASE lab' = [lab EXCEPT !.connected = TRUE]
        BY <1>1, <3>1 DEF LabRecords, SameAudit
      <3>2. CASE lab' = [lab EXCEPT !.listing = FALSE, !.listed = GoldSets]
        BY <1>1, <3>2 DEF LabRecords, SameAudit
      <3>3. ASSUME NEW v \in {"no", "sent"}, lab' = [lab EXCEPT !.submitting = v]
            PROVE  lab' \in LabRecords /\ SameAudit(lab, lab')
        BY <1>1, <3>3 DEF LabRecords, SameAudit
      <3>4. ASSUME NEW v \in {"none", "cancel", "checkpoint"}, lab' = [lab EXCEPT !.control = v]
            PROVE  lab' \in LabRecords /\ SameAudit(lab, lab')
        BY <1>1, <3>4 DEF LabRecords, SameAudit
      <3>5. ASSUME NEW v \in BOOLEAN, lab' = [lab EXCEPT !.config = v]
            PROVE  lab' \in LabRecords /\ SameAudit(lab, lab')
        BY <1>1, <3>5 DEF LabRecords, SameAudit
      <3> QED BY <2>2, <3>1, <3>2, <3>3, <3>4, <3>5
    <2> QED BY <1>1, <2>1, <2>3, QuietStep
  <1>3. CASE LabAnswers
    BY <1>2, <1>3, EventHandled, RunFollowed, AuditAnswered, TrainerMoved DEF LabAnswers
  <1>4. ASSUME NEW S \in SUBSET GoldSets, SelectSnapshots(S) PROVE LabInv'
    BY <1>4, SnapshotsSelected
  <1> QED BY <1>2, <1>3, <1>4 DEF LabNext

(* A verdict of the training lab is one on the selected snapshots, for any   *)
(* number of snapshots and of audits under way (page.tsx, the readiness      *)
(* effect and its cancelled flag).                                           *)
THEOREM ReadinessFitsSelection == Spec => []ReadinessOfSelection
  <1>1. Init => LabInv
    <2> SUFFICES ASSUME Init PROVE LabInv
      OBVIOUS
    <2>1. lab = MountedLab /\ trainer \in TrainServers(FALSE)
      BY DEF Init
    <2> QED BY <2>1, LabMounted DEF LabInv, LabType
  <1>2. LabInv /\ [Next]_vars => LabInv'
    <2> SUFFICES ASSUME LabInv, [Next]_vars PROVE LabInv'
      OBVIOUS
    <2>1. CASE UNCHANGED trainVars
      BY <2>1 DEF trainVars, LabInv, LabType, AuditFits
    <2>2. CASE lab' = MountedLab /\ \E open \in BOOLEAN : trainer' \in TrainServers(open)
      <3>1. lab' \in LabRecords /\ AuditFits(lab') /\ trainer' \in [TrainingRuns -> ServedRuns]
        BY <2>2, LabMounted
      <3> QED BY <3>1 DEF LabInv, LabType, AuditFits
    <2>3. CASE LabNext
      BY <2>3, LabStep
    <2> QED BY <2>1, <2>2, <2>3, LabMoves
  <1>3. LabInv => ReadinessOfSelection
    BY DEF LabInv, AuditFits, ReadinessOfSelection, CohortPanel
  <1> QED BY <1>1, <1>2, <1>3, PTL DEF Spec

==============================================================================
