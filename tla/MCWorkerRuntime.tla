-------------------------- MODULE MCWorkerRuntime --------------------------
EXTENDS WorkerRuntime

\* Both runtimes, where a thread that joins itself panics and where it hangs.
Builds == Config
=============================================================================
