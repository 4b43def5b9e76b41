------------------------------ MODULE MCDeploy ------------------------------
(* Three builds, the first of which serves: the second and third may be     *)
(* anything, and are deployed in any order and any number of times, so that *)
(* a failure may follow a failure, or a release that was kept although the  *)
(* proxy did not pass it on.                                                *)
EXTENDS Deploy
=============================================================================
