\* seven configurations that run and six that are refused
CONSTANT Confs <- MCConfs
SPECIFICATION Spec
INVARIANT NeverIncomplete
PROPERTIES ControlsAtomic EverythingArrives
