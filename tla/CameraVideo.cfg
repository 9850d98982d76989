SPECIFICATION Spec
INVARIANT VideoGoesOn
