\* which logout configurer is used
SPECIFICATION BeanSpec
INVARIANT
  LogoutProcessorRegistered
