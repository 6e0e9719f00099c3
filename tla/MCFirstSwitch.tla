--------------------------- MODULE MCFirstSwitch ---------------------------
(* An instance of FirstSwitch for TLC: the idle task and four others, one  *)
(* more than virt_rust_main spawns.                                        *)
EXTENDS FirstSwitch

BootTasks == <<"idle", "a", "b", "shell", "c">>
=============================================================================
