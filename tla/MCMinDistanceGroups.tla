------------------------ MODULE MCMinDistanceGroups ------------------------
(* Model-checking instance of MinDistanceGroups: every symmetric matrix of *)
(* up to five objects with off-diagonal distances 1 or 2, which covers     *)
(* every link graph the minimal distance can draw on five objects.        *)
EXTENDS MinDistanceGroups

MCMaxObjs == 5
MCValues == {1, 2}
=============================================================================
