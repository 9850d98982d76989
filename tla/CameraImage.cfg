SPECIFICATION Spec
INVARIANT ShowsTheImage
