---------------------------- MODULE MCModuleSwap ----------------------------
EXTENDS ModuleSwap

MCJobs == <<"a", "b">>
=============================================================================
