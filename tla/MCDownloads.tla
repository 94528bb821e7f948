---------------------------- MODULE MCDownloads -----------------------------
(* Downloads for TLC: two URLs that end in the same name and one that does *)
(* not.                                                                    *)
EXTENDS Downloads, TLC

CONSTANTS app, mirror, other, appDeb, otherDeb

MCUrls == {app, mirror, other}
MCNames == {appDeb, otherDeb}
MCFileName == app :> appDeb @@ mirror :> appDeb @@ other :> otherDeb
=============================================================================
