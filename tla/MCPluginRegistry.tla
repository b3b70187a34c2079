-------------------------- MODULE MCPluginRegistry --------------------------
(* Instances of PluginRegistry for TLC. *)
EXTENDS PluginRegistry, TLC

CONSTANTS spam, push

\* Two executables; both answer with the file name of the first.
MCFileName  == <<spam, push>>
MCAnnounced == <<spam, spam>>
=============================================================================
