---------------------------- MODULE MCSimulation ----------------------------
(* Small instances of Simulation.                                           *)
EXTENDS Simulation

Setting(workers, schedulers, migration) ==
    [max_sim_time |-> 0, worker_threads |-> workers, scheduler_count |-> schedulers,
     lp_migration |-> migration, state_period |-> 10, gvt_period |-> 1000]

(* One scheduler, which keeps the order of the LPs, and two, which do not;  *)
(* and one value more for rank 0 to gather where LP migration is off.       *)
DifferentSettings == {Setting(3, 1, "on"), Setting(3, 2, "off")}
=============================================================================
