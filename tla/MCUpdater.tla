----------------------------- MODULE MCUpdater -----------------------------
(* A release history for the Updater run.                                  *)
EXTENDS Updater

V(a, b, c) == [parts |-> <<a, b, c>>, tagged |-> FALSE]
Beta(v) == [v EXCEPT !.tagged = TRUE]
OurOrigin == [scheme |-> "https", authority |-> "dist"]

Release(v, f, percent) ==
    [version |-> v, sha256 |-> f, url |-> OurOrigin, channel |-> "stable",
     percent |-> percent]

(* Forward and backward steps in each component, a staged and a full        *)
(* rollout of one version, a pre-release, the wrong channel and origins, a   *)
(* version too short and two past the component limit.                      *)
History ==
    {Release(V(1, 1, 0), "f1", 100), Release(V(1, 0, 2), "f1", 100),
     Release(Beta(V(1, 1, 0)), "f2", 100), Release(V(2, 0, 0), "f2", 30),
     Release(V(2, 0, 0), "f2", 100),
     Release([parts |-> <<3, 0>>, tagged |-> FALSE], "f1", 100),
     Release(V(4, 0, 0), "f1", 100), Release(V(1, 0, 5), "f2", 100),
     [Release(V(3, 0, 0), "f1", 100) EXCEPT !.channel = "beta"],
     [Release(V(3, 0, 0), "f2", 100) EXCEPT !.url.authority = "elsewhere"],
     [Release(V(3, 1, 0), "f2", 100) EXCEPT !.url.scheme = "http"]}

Shipped == V(1, 0, 0)
=============================================================================
