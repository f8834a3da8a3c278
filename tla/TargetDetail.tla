---------------------------- MODULE TargetDetail ----------------------------
(***************************************************************************)
(* The analysis page of one target (dashboard/src/pages/target-detail): it *)
(* reads the insights and then the observation, and shows an orbit viewer  *)
(* that sends its simulated time over TransitSyncBridge to the light       *)
(* curve.  Angles, distances and sizes are left out: of the camera only    *)
(* its mode, the drag and whether it is panned off the star are kept.      *)
(***************************************************************************)
EXTENDS Integers, LightCurve, PixelInspector

CONSTANTS
    Curves,       \* the light curves that the observation of a target may hold
    Pixels,       \* the pixels of the cutout that are clicked
    MaxSimTime    \* bound: simulated time, in emitted events

ASSUME DetailConstants ==
    /\ \A c \in Curves : c \in Seq(Nat) /\ 0 < Len(c) /\ Len(c) < PowerOfTwo[FloatBits]
    /\ MaxSimTime \in Nat

VARIABLES
    insight,   \* the server: what is known of the target
    detail     \* state of the page

detailVars == <<insight, detail>>

NoTime == -1

InsightServers(open) ==
    IF open THEN [lightcurve : BOOLEAN, star : BOOLEAN, planet : BOOLEAN]
    ELSE {[lightcurve |-> FALSE, star |-> FALSE, planet |-> FALSE]}

MountedDetail ==
    [reading |-> "insights", data |-> FALSE, curve |-> <<>>, error |-> FALSE,
     mode |-> "free", dragging |-> FALSE, rightDrag |-> FALSE, panned |-> FALSE,
     playing |-> TRUE, time |-> 0, emitted |-> NoTime, lastSim |-> 0,
     clicked |-> FALSE, pixel |-> CentrePixel]

(* Target3DSimulator shows the viewer only for a star with verified context. *)
ViewerShown == detail.data /\ ~detail.error /\ insight.star
CurveShown == detail.data /\ ~detail.error /\ detail.curve # <<>>

-----------------------------------------------------------------------------
InsightsAnswered ==
    /\ detail.reading = "insights"
    /\ detail' = [detail EXCEPT !.data = TRUE,
                     !.reading = IF insight.lightcurve THEN "observation" ELSE "none"]
    /\ UNCHANGED insight

InsightsFailed ==
    /\ detail.reading = "insights"
    /\ detail' = [detail EXCEPT !.error = TRUE, !.reading = "none"]
    /\ UNCHANGED insight

ObservationAnswered ==
    /\ detail.reading = "observation"
    /\ \E curve \in Curves \cup {<<>>} :   \* <<>>: the request failed
          detail' = [detail EXCEPT !.curve = curve, !.reading = "none"]
    /\ UNCHANGED insight

-----------------------------------------------------------------------------
(* A new mode registers the handlers of the mouse again, and with them a new *)
(* isRightDrag; isDragging lives in the camera and stays.                    *)
CameraMode(d, mode) ==
    IF mode = d.mode THEN d ELSE [d EXCEPT !.mode = mode, !.rightDrag = FALSE]

(* Mistake: a drag keeps the fixed view. *)
KeepsFixedView(d) == d

LeavesFixedView(d) == IF d.mode \in {"polar", "transit"} THEN CameraMode(d, "free") ELSE d

MouseDown(right) ==
    /\ ViewerShown
    /\ detail' = LeavesFixedView([detail EXCEPT !.dragging = TRUE, !.rightDrag = right])
    /\ UNCHANGED insight

MouseMove(shift) ==
    /\ ViewerShown /\ detail.dragging
    /\ detail' = IF detail.rightDrag \/ shift THEN [detail EXCEPT !.panned = TRUE] ELSE detail
    /\ UNCHANGED insight

MouseUp ==
    /\ ViewerShown /\ detail.dragging
    /\ detail' = [detail EXCEPT !.dragging = FALSE, !.rightDrag = FALSE]
    /\ UNCHANGED insight

WheelOut ==
    /\ ViewerShown /\ detail.mode = "focus_planet"
    /\ detail' = CameraMode(detail, "free")
    /\ UNCHANGED insight

(* The buttons of CameraControls; the pointer is not in a drag. *)
CameraButtons == {"reset", "polar", "transit", "zoom out"} \cup
                 (IF insight.planet THEN {"focus"} ELSE {})

CameraButton(b) ==
    /\ ViewerShown /\ ~detail.dragging /\ b \in CameraButtons
    /\ detail' = CASE b = "reset"   -> CameraMode([detail EXCEPT !.panned = FALSE], "free")
                   [] b = "polar"   -> CameraMode([detail EXCEPT !.panned = FALSE], "polar")
                   [] b = "transit" -> CameraMode([detail EXCEPT !.panned = FALSE], "transit")
                   [] b = "focus"   -> CameraMode(detail, "focus_planet")
                   [] OTHER         -> IF detail.mode = "focus_planet"
                                       THEN CameraMode(detail, "free") ELSE detail
    /\ UNCHANGED insight

(* The button of SimulationControls. *)
TogglePlay ==
    /\ ViewerShown
    /\ detail' = [detail EXCEPT !.playing = ~@]
    /\ UNCHANGED insight

(* The light curve takes the event of the bridge; its effect forgets a       *)
(* clicked position as soon as the simulated time has moved.                 *)
ReceivesTick(d) ==
    IF d.emitted = d.lastSim THEN d
    ELSE [d EXCEPT !.lastSim = d.emitted, !.clicked = FALSE]

(* A frame of the render loop: time passes while the simulation plays, the   *)
(* focused camera pans after its planet, and an event is sent, also while    *)
(* the simulation is paused.                                                 *)
Frame ==
    LET time == IF detail.playing THEN detail.time + 1 ELSE detail.time
        moved == [detail EXCEPT !.time = time,
                     !.panned = @ \/ (detail.mode = "focus_planet" /\ insight.planet)]
    IN /\ ViewerShown /\ time <= MaxSimTime
       /\ detail' = IF ~insight.planet THEN moved
                    ELSE ReceivesTick([moved EXCEPT !.emitted = time])
       /\ UNCHANGED insight

ClickChart ==
    /\ CurveShown
    /\ detail' = [detail EXCEPT !.clicked = TRUE]
    /\ UNCHANGED insight

(* A pixel of the cutout beside the light curve. *)
SelectPixel(pixel) ==
    /\ CurveShown
    /\ detail' = [detail EXCEPT !.pixel = HandleSelectPixel(detail.pixel, pixel)]
    /\ UNCHANGED insight

DetailNext ==
    \/ InsightsAnswered \/ InsightsFailed \/ ObservationAnswered
    \/ \E right \in BOOLEAN : MouseDown(right)
    \/ \E shift \in BOOLEAN : MouseMove(shift)
    \/ MouseUp \/ WheelOut
    \/ \E b \in CameraButtons : CameraButton(b)
    \/ TogglePlay \/ Frame \/ ClickChart
    \/ \E pixel \in Pixels : SelectPixel(pixel)

-----------------------------------------------------------------------------
(* The polar and the transit view are centred on the star: no drag, before   *)
(* or after the view was chosen, and no focused planet leaves them panned.   *)
CentredViews == detail.mode \in {"polar", "transit"} => ~detail.panned

(* The chart shows the dips and flares of the curve at their full depth,     *)
(* those of all samples but the last one (downsampleMinMax).                 *)
DipsKept == CurveShown => KeepsExtrema(detail.curve, 1 .. Len(detail.curve) - 1)

(* The same of all samples, as the comment of downsampleMinMax guarantees.   *)
(* It does not hold for every length of a curve: README, section 4.          *)
ExtremaKept == CurveShown => KeepsExtrema(detail.curve, DOMAIN detail.curve)

=============================================================================
