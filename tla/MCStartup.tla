----------------------------- MODULE MCStartup -----------------------------
(***************************************************************************)
(* Three namespaces, two of which share a directory of two files.          *)
(***************************************************************************)
EXTENDS Startup, TLC

CONSTANTS h1, h2, h3, d1, d2, a, b, c, html, js

HostPaths == h1 :> d1 @@ h2 :> d2 @@ h3 :> d1

FileDirs == a :> d1 @@ b :> d1 @@ c :> d2

FileTypes == a :> html @@ b :> js @@ c :> html

Types == <<html, js>>
=============================================================================
