---------------------------- MODULE MCMigrations ----------------------------
(***************************************************************************)
(* The four files of the repository: 0003 alters accounts and refers to    *)
(* transfers, 0004 alters transfers, both from 0001; 0002 stands alone.    *)
(***************************************************************************)
EXTENDS Migrations

MCNeeds == <<{}, {}, {1}, {1}>>
=============================================================================
