CONSTANT Sources <- Short
SPECIFICATION Spec
INVARIANT LayoutSeesDefines
