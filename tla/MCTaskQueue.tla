----------------------------- MODULE MCTaskQueue -----------------------------
(* Three tasks, two workers as in search_service.go, two goroutines that may *)
(* call Stop, and a buffer of one, so that it fills while both workers are   *)
(* busy.                                                                     *)
EXTENDS TaskQueue
==============================================================================
