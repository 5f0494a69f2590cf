\* Sessions one after the other, every command may be refused, the program
\* may be killed at any step.
SPECIFICATION Spec
INVARIANTS
    TypeOK
    InitReady
    InitBlame
    
