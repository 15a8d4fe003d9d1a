---------------------------- MODULE MCWorkSurface ----------------------------
(* One tab of one person.                                                   *)
EXTENDS WorkSurface

CONSTANT t1
=============================================================================
