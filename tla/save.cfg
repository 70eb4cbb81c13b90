SPECIFICATION Spec
CONSTANT MaxVersion = 3
INVARIANT
    NeverTorn
PROPERTY
    ImplementsRegister
