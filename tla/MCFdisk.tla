------------------------------- MODULE MCFdisk -------------------------------
(***************************************************************************)
(* FDISK on a device that takes one partition a little larger than 128     *)
(* megabytes: a file system with 257 sectors per FAT.                      *)
(***************************************************************************)
EXTENDS Fdisk

MCDevices == {[sectors |-> 262400, disk |-> [s \in {} |-> 0]]}
MCEnteredSizes == {[n |-> 32000, inK |-> TRUE], [n |-> 128, inK |-> FALSE]}
=============================================================================
