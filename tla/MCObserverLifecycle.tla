------------------------ MODULE MCObserverLifecycle ------------------------
\* ObserverLifecycle with its bounds given in the configurations.
EXTENDS ObserverLifecycle
=============================================================================
