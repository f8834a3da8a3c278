--------------------------- MODULE PixelInspector ---------------------------
(***************************************************************************)
(* The synchronised view of a target (dashboard/src/pages/target-detail):  *)
(* the transits that SynchronizedLightCurve projects over the observed     *)
(* times, the sample under the playhead, and the pixels of the cutout that *)
(* TpfPixelInspector shows with it.  Times are integers, ratios percents   *)
(* and positions on the cutout thousandths of a pixel.  The cutout tpf has *)
(*   rows      its side, 0 when there is none     centroid  <<row, col>>   *)
(*   offset    of the centroid from the star      median, diff, mask       *)
(* where a map that was not measured is <<>>.                              *)
(***************************************************************************)
EXTENDS Integers, Sequences

Larger(a, b) == IF a >= b THEN a ELSE b
Smaller(a, b) == IF a <= b THEN a ELSE b
Magnitude(n) == IF n >= 0 THEN n ELSE -n

-----------------------------------------------------------------------------
(* The transits of the ephemeris bls over the span of the curve: the epochs  *)
(* are a period apart and none of them is centred outside of the span.       *)
Measured(bls) == bls.period > 0 /\ bls.epoch # 0 /\ bls.duration > 0

TransitEpochs(bls, first, last) ==
    IF ~Measured(bls) THEN {}
    ELSE {[center |-> c, start |-> Larger(first, c - bls.duration \div 2),
           end |-> Smaller(last, c + bls.duration \div 2)] :
              c \in {t \in first .. last : (t - bls.epoch) % bls.period = 0}}

(* The playhead of the simulator, wrapped into the span of the curve. *)
SimTime(bls, first, last, elapsed) ==
    LET span    == last - first
        epochs  == {e.center : e \in TransitEpochs(bls, first, last)}
        started == IF epochs = {} THEN first ELSE CHOOSE c \in epochs : \A d \in epochs : c <= d
    IN IF span = 0 THEN first ELSE first + ((started - first + elapsed) % span)

(* Inside of an epoch the depth falls from its centre to 15 percent at its   *)
(* edge; elsewhere an event of the simulator decides.                        *)
TransitAt(epochs, time, clicked, event) ==
    LET around == {e \in epochs : e.start <= time /\ time <= e.end}
        e      == CHOOSE d \in around : \A f \in around : d.center <= f.center
        half   == (e.end - e.start) \div 2
    IN IF around # {}
       THEN [transit |-> TRUE,
             ratio |-> IF half > 0
                       THEN Larger(15, 100 - (100 * Magnitude(time - e.center)) \div half)
                       ELSE 100]
       ELSE IF event.transit /\ ~clicked THEN [transit |-> TRUE, ratio |-> event.ratio]
       ELSE [transit |-> FALSE, ratio |-> 0]

(* The sample under the playhead: a guess from the fraction of the span, and *)
(* the nearest of the eight samples at either side of it.                    *)
NearestSample(times, time) ==
    LET n      == Len(times)
        span   == Larger(1, times[n] - times[1])
        passed == Larger(0, Smaller(span, time - times[1]))
        guess  == 1 + (passed * (n - 1)) \div span
        near   == Larger(1, guess - 8) .. Smaller(n, guess + 8)
        dist(i) == Magnitude(times[i] - time)
        best   == {i \in near : \A j \in near : dist(i) <= dist(j)}
    IN IF guess \in best THEN guess ELSE CHOOSE i \in best : \A j \in best : i <= j

-----------------------------------------------------------------------------
Side(tpf) == IF tpf.rows > 0 THEN tpf.rows ELSE 11
Complete(map, tpf) == map # <<>> /\ Len(map) = Side(tpf) * Side(tpf)

(* The centre of the cutout: that of the panel ignores the offset that moves *)
(* the centre of the grid.                                                   *)
GridCentre(tpf) ==
    <<IF tpf.centroid[1] > 0 THEN tpf.centroid[1] ELSE 5000 + (4 * tpf.offset) \div 10,
      IF tpf.centroid[2] > 0 THEN tpf.centroid[2] ELSE 5000>>
PanelCentre(tpf) ==
    <<IF tpf.centroid[1] > 0 THEN tpf.centroid[1] ELSE 5000,
      IF tpf.centroid[2] > 0 THEN tpf.centroid[2] ELSE 5000>>

Squared(n) == n * n
InAperture(tpf, centre, pixel) ==
    IF Complete(tpf.mask, tpf) THEN tpf.mask[pixel[1] * Side(tpf) + pixel[2] + 1] = 1
    ELSE Squared(1000 * pixel[1] - centre[1]) + Squared(1000 * pixel[2] - centre[2])
            <= Squared(2250)

(* The flux of a pixel while the planet covers ratio percent of the depth. *)
Dimmed(base, diff, ratio) == Larger(0, base - (Magnitude(diff) * ratio) \div 100)

(* Without a measured map the profile psf of a star stands for it, and the   *)
(* depth of the transit is 0.56 percent of it.                               *)
Cell(tpf, psf, pixel, now) ==
    LET idx  == pixel[1] * Side(tpf) + pixel[2] + 1
        base == IF Complete(tpf.median, tpf) THEN tpf.median[idx] ELSE psf[pixel]
        diff == IF ~Complete(tpf.median, tpf) THEN (base * 56) \div 10000
                ELSE IF Complete(tpf.diff, tpf) THEN tpf.diff[idx] ELSE 0
    IN [rate |-> IF now.transit THEN Dimmed(base, diff, Larger(10, now.ratio)) ELSE base,
        inAperture |-> InAperture(tpf, GridCentre(tpf), pixel)]

(* A second click on the selected pixel clears the selection; a pixel that   *)
(* is not on the cutout shows nothing.                                       *)
NoPixel == <<>>
CentrePixel == <<5, 5>>
HandleSelectPixel(selected, pixel) == IF selected = pixel THEN NoPixel ELSE pixel

PanelShown(tpf, selected) ==
    /\ selected # NoPixel
    /\ \A i \in 1 .. 2 : selected[i] \in 0 .. Side(tpf) - 1

=============================================================================
