------------------------------- MODULE MCHouse -------------------------------
(* Units with and without a brick, on two kernels, two generations each.   *)
EXTENDS HouseProps

MCInode == [x \in {"etc", "tty", "ctl", "ctl_slash"} |-> IF x = "ctl_slash" THEN "ctl" ELSE x]

MCKernels ==
  { [abi |-> 1, last |-> 40, soft |-> 8, hard |-> 16, controllers |-> {"pids"}],
    [abi |-> 3, last |-> 24, soft |-> 8, hard |-> 16, controllers |-> Limits] }

Shapes ==
  [lids : SUBSET {"newnet", "newns", "seccomp"}, brick : {FALSE}, layer : {"none"}, binds : {<<>>}]
  \union
  [lids : {x \union {"newns"} : x \in SUBSET {"newnet", "landlock", "seccomp"}}, brick : {TRUE},
   layer : {"plain", "sized"}, binds : {<<>>, <<"etc", "ctl_slash">>, <<"ctl", "tty">>}]

Rest ==
  [settings : {{}, Settings}, limits : {{}, {"memory", "pids"}}, nofile : {0, 3, 12, 32},
   caps : {{}, {SysAdmin, 3}}]

MCUnits ==
  { [lids |-> a.lids, brick |-> a.brick, layer |-> a.layer, binds |-> a.binds,
     settings |-> b.settings, limits |-> b.limits, nofile |-> b.nofile, caps |-> b.caps] :
    a \in Shapes, b \in {r \in Rest : (r.settings = {}) = (r.limits = {})} }
==============================================================================
