CONSTANT Threads = {t1, t2, t3, t4, t5}
SPECIFICATION Spec
INVARIANT TypeOK
INVARIANT MutualExclusion
INVARIANT CounterExact
PROPERTY RefinesMutex
