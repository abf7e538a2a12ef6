---------------------------- MODULE MCMigration ----------------------------
(* An instance of Migration: customers around a fee account with index 7.   *)
EXTENDS Migration

FourAccounts == <<0, 7, 2, 5>>
============================================================================
