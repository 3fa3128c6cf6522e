----------------------------- MODULE MCGpuYield -----------------------------
(* One and two ranks, with and without the throttle, and the options that  *)
(* change when a child is resumed.                                         *)
EXTENDS GpuYield

Conf(ranks, throttle, until_done, always, on_arrival, ahead, n, m) ==
    [ranks |-> ranks, throttle |-> throttle, until_done |-> until_done,
     always |-> always, on_arrival |-> on_arrival, ahead |-> ahead,
     steps |-> n, boundaries |-> m]

MCConfigs ==
    {Conf(1, TRUE, TRUE, FALSE, FALSE, 1, 3, 3), Conf(1, TRUE, FALSE, TRUE, TRUE, 0, 2, 2),
     Conf(1, FALSE, TRUE, TRUE, TRUE, 1, 2, 3),  Conf(2, FALSE, TRUE, FALSE, FALSE, 1, 1, 2),
     Conf(2, TRUE, TRUE, FALSE, FALSE, 0, 1, 2), Conf(2, FALSE, TRUE, FALSE, TRUE, 0, 1, 2)}
=============================================================================
