------------------------------- MODULE MCIndex ------------------------------
(* Small instances of Index: two files, walks one after another, and an     *)
(* `open` beside the watcher thread.                                        *)
EXTENDS Index

CONSTANTS f1, f2
=============================================================================
