------------------------------ MODULE MCSurvey ------------------------------
(* Instances of Survey for TLC.                                             *)
EXTENDS Survey

\* A waypoint that accepts a single marker and one that accepts any; a shorter override.
MCBaseline == <<1, TagAny>>
MCOverrides == {<<2>>}

\* A waypoint whose marker is never seen.
MCUnseen == <<TagAny>>
=============================================================================
