---------------------------- MODULE MCWorkbench ----------------------------
(* An instance of the workbench: two rows to label on pages of one, two      *)
(* training runs, two packages of one model, the second one not verified;    *)
(* two targets, objects and products on pages of one, and objects of two     *)
(* formats to inspect.                                                       *)
EXTENDS Workbench

Row(s, p) == [snapshot |-> s, product |-> p]
TwoRows == <<Row("s1", "a"), Row("s1", "b")>>
Plain == [depth |-> 1, radius |-> 10, centroid |-> 5, power |-> 5, score |-> 90, above |-> TRUE,
          scored |-> FALSE, confirmed |-> FALSE, transit |-> TRUE, bls |-> FALSE,
          variable |-> FALSE, sparse |-> FALSE]
SomeEvidence == [r \in {Row("s1", "a"), Row("s1", "b")} |->
    IF r.product = "a" THEN Plain ELSE [Plain EXCEPT !.scored = TRUE]]

Form(epochs) == [intent |-> "new", base |-> "champion", target |-> "gpu", epochs |-> epochs,
                 batch |-> 1, rate |-> 1, seed |-> 0]
TwoForms == {Form(0), Form(1)}
TwoPhases == <<"loading_gold", "training">>

Package(id, parity) == [id |-> id, model |-> "m", status |-> "candidate", parity |-> parity,
                        integrity |-> "passed", digest |-> "d"]
TwoPackages == <<Package("k1", "passed"), Package("k2", "failed")>>
Evaluation(id, matrix) ==
    [run |-> "e", package |-> id, matrix |-> matrix, recent |-> matrix # <<>>, drift |-> <<0 - 1>>,
     threshold |-> 120, gate |-> TRUE, parity |-> "", integrity |-> "passed",
     goldDigest |-> "d", onnxDigest |-> ""]
TwoEvaluations == [k1 |-> Evaluation("k1", <<3, 1, 0, 0>>), k2 |-> Evaluation("", <<>>)]
JobTimes == [j1 |-> 2, j2 |-> 1]
JobBindings == [j1 |-> "k1", j2 |-> "k2"]
JobList == <<"j1", "j2">>

Target(tic, candidate) == [tic |-> tic, lightcurve |-> TRUE, candidate |-> candidate, toi |-> FALSE]
TwoTargets == <<Target("1", FALSE), Target("2", TRUE)>>

(* A curve that is drawn as it is, and one that is thinned, whose last       *)
(* sample is its deepest.                                                    *)
OnePixel == {<<5, 5>>}
TwoCurves == {<<5, 5, 3, 5>>, <<5, 5, 5, 2, 5, 5, 9, 5, 5, 5, 1, 5, 0>>}
PowersToSixteen == [k \in 0 .. 4 |-> 2 ^ k]

Quiet == [status |-> "no_data", last |-> <<>>]
Busy == [status |-> "up", last |-> [gpu_memory_used |-> 1, gpu_memory_total |-> 2, throughput |-> 0]]
TwoSignals == {Quiet, Busy}

Object(t, s, n) == [tier |-> t, sub |-> s, named |-> n]
TwoObjects == <<Object("gold", "features", TRUE), Object("gold", "features", FALSE)>>

SomeFormats == [k \in {"fits1", "fits2", "parquet1"} |-> IF k = "parquet1" THEN "parquet" ELSE "fits"]
SomeHdus == [fits1 |-> <<FALSE, TRUE>>, fits2 |-> <<FALSE>>]
SomeMatches == [s \in BOOLEAN |-> IF s THEN 1 ELSE 2]

Product(id, kind, silver, gold, named) ==
    [id |-> id, kind |-> kind, silver |-> silver, lineage |-> silver, gold |-> gold, named |-> named]
TwoProducts == <<Product("p1", "lightcurve", FALSE, FALSE, FALSE),
                   Product("p2", "lightcurve", TRUE, TRUE, TRUE)>>

Service(id, status, signals) == [id |-> id, status |-> status, signals |-> signals]
SomeBodies ==
    {[system |-> "HEALTHY", minio |-> "up", clickhouse |-> "ready",
      fleet |-> <<Service("go-ingester", "up", << <<>>, <<1, 2>> >>), Service("nats", s, <<>>)>>,
      ingest |-> <<[observed |-> TRUE, done |-> 2, total |-> 3]>>, targets |-> <<0>>] :
        s \in {"up", "degraded", "no_data"}}

============================================================================
